---- MODULE Spec2Model ----
(***************************************************************************)
(* The user-space VDO format / reconfigure paths of vdoConfig.c, run       *)
(* against a synchronous physical layer whose calls may fail.              *)
(*                                                                         *)
(* Spec      : formatVDOWithNonce, forceVDORebuild and setVDOReadOnlyMode  *)
(*             called one after another on a small device.                 *)
(* SpecClear : clearPartition alone, on partitions of every shape (odd,    *)
(*             even, multiples of 4096, larger than 4096).                 *)
(* SpecLayout: makeAndWriteVDO from configureVDO on, for devices of every  *)
(*             size up to MaxPhysical, every data region offset and every  *)
(*             slab size, slab journal size and logical size.              *)
(*                                                                         *)
(* The programs beside vdoConfig.c have their own sections further down:   *)
(* SpecSuspend and SpecSuspendFair (vdoSuspend.c), SpecParse               *)
(* (parseUtils.c), SpecLog (minisyslog.c) and SpecAlloc (memoryAlloc.h).   *)
(***************************************************************************)
EXTENDS Integers, Naturals, Sequences, FiniteSets, TLC

(***************************************************************************)
(* Bounds of the model.                                                    *)
(***************************************************************************)
\* blocks of the device of Spec (layer->getBlockCount)
NumBlocks == 10
\* largest dedup-index region the index configuration may ask for
MaxIndexBlocks == 1
\* largest config.recoveryJournalSize
MaxJournalSize == 3
\* size of the block map partition (the root count, scaled down)
RootCount == 2
\* get_slab_summary_size(VDO_BLOCK_SIZE), scaled down
SlabSummaryBlocks == 1
\* largest config.slabSize
MaxSlabSize == 2
\* top-level calls in one behaviour
MaxCalls == 3
\* SpecClear: partition sizes are m * 2^j, m <= MaxMult, j <= MaxShift
MaxMult == 5
MaxShift == 13
\* SpecClear: largest partition offset
MaxStart == 2
\* SpecLayout: largest config.physicalBlocks and largest data region offset
MaxPhysical == 24
MaxOffset == 3
\* SpecLayout: largest config.slabSize, config.slabJournalBlocks and
\* config.logicalBlocks
MaxLayoutSlabSize == 8
MaxSlabJournalBlocks == 2
MaxLogical == 5
\* reference counters held by one block, scaled down
COUNTS_PER_BLOCK == 2
\* entries of one block map page, scaled down
BLOCK_MAP_ENTRIES_PER_PAGE == 3
\* SpecLog: threads that call the logger, and descriptors the process may
\* have open at once
NumThreads == 2
MaxDescriptors == 2
\* SpecAlloc: bits of a size_t (64, scaled down)
SizeBits == 3
\* BlockCount is an unsigned type: its values wrap at this modulus
\* (2^64, scaled down)
BlockCountModulus == 65536

(***************************************************************************)
(* Program constants.                                                      *)
(***************************************************************************)
\* vdoConfig.c:176, the cap on bufferBlocks
MaxBufferBlocks == 4096
\* VDO_BLOCK_SIZE, bytes per block
VDO_BLOCK_SIZE == 4096

VDO_SUCCESS == "VDO_SUCCESS"
VDO_OUT_OF_RANGE == "VDO_OUT_OF_RANGE"
VDO_NOT_READ_ONLY == "VDO_NOT_READ_ONLY"
VDO_BAD_MAGIC == "VDO_BAD_MAGIC"
VDO_UNSUPPORTED_VERSION == "VDO_UNSUPPORTED_VERSION"
VDO_BAD_CHECKSUM == "VDO_CHECKSUM_MISMATCH"
VDO_IO_ERROR == "VDO_IO_ERROR"
VDO_OUT_OF_MEMORY == "ENOMEM"
UDS_ERROR == "UDS_ERROR"

BLOCK_MAP_PARTITION == "BLOCK_MAP_PARTITION"
BLOCK_ALLOCATOR_PARTITION == "BLOCK_ALLOCATOR_PARTITION"
RECOVERY_JOURNAL_PARTITION == "RECOVERY_JOURNAL_PARTITION"
SLAB_SUMMARY_PARTITION == "SLAB_SUMMARY_PARTITION"

VDO_NEW == "VDO_NEW"
VDO_CLEAN == "VDO_CLEAN"
VDO_DIRTY == "VDO_DIRTY"
VDO_READ_ONLY_MODE == "VDO_READ_ONLY_MODE"
VDO_FORCE_REBUILD == "VDO_FORCE_REBUILD"

VARIABLES
  dev,        \* the device: block number -> block content
  devAtCall,  \* the device as it was when the running call was made
  writes,     \* the layer->writer calls the running call has issued, in order
  pc,         \* position of the running call
  op,         \* the running (or last) top-level call
  result,     \* the value the last call returned
  args,       \* the caller's arguments: the config and index config it
              \* formats with, and the arguments of the running call
  geometry,   \* formatVDOWithNonce's struct volume_geometry
  vdo,        \* the VDO made by makeVDO, or NoVDO
  cp,         \* clearPartition's locals
  heap,       \* allocation accounting of the running call
  calls,      \* top-level calls made so far
  trail,      \* the steps of the running call that have returned, with results
  adminCompletion,  \* vdoSuspend.c: the admin completion of the operation
  subTask,          \* vdoSuspend.c: the sub-task completion
  kernelVDO,        \* vdoSuspend.c: the VDO being suspended
  superBlockSaves,  \* vdoSuspend.c: the states saved in the super block
  adminLog,         \* vdoSuspend.c: what the operation has done, in order
  parse,            \* parseUtils.c: the call of parseSize or parseUInt
  logger,           \* minisyslog.c: the mutex and the globals it protects
  descriptors,      \* minisyslog.c: the process's file descriptors
  logThreads,       \* minisyslog.c: where each thread is in its call
  alloc             \* memoryAlloc.h: the call of doAllocation

\* the state of the format and reconfigure paths of vdoConfig.c
formatVars == <<dev, devAtCall, writes, pc, op, result, args, geometry, vdo,
                cp, heap, calls, trail>>
\* the state of the programs other than vdoConfig.c
otherVars == <<adminCompletion, subTask, kernelVDO, superBlockSaves,
               adminLog, parse, logger, descriptors, logThreads, alloc>>

vars == <<formatVars, otherVars>>

(***************************************************************************)
(* Blocks and the physical layer.                                          *)
(***************************************************************************)
VDOStates == {VDO_NEW, VDO_CLEAN, VDO_DIRTY, VDO_READ_ONLY_MODE,
              VDO_FORCE_REBUILD, "VDO_RECOVERING", "VDO_REBUILD_FOR_UPGRADE",
              "VDO_REPLAYING"}

\* a block of zeros, as clearPartition and clear_volume_geometry write it
ZeroBlock == [kind |-> "zero", body |-> [pbn |-> 0]]
\* whatever block b held before any VDO metadata was written to it
DataBlock(b) == [kind |-> "data", body |-> [pbn |-> b]]
\* the encoded volume geometry
GeometryBlock(g) == [kind |-> "geometry", body |-> g]
\* the version in the header of a super block this code reads and writes,
\* and any other value of that field
SuperBlockVersion == "known version"
AlteredVersion == "altered version"
\* the release version this code writes and accepts, and another one
CurrentRelease == "current release"
OtherRelease == "other release"
\* the checksum of the part of a super block that follows its header: the
\* release version and the components; different contents have different
\* checksums
Checksum(release, body) == <<release, body>>

\* the components of the encoded super block of a VDO: the VDO component
\* {state, nonce, config, complete_recoveries, read_only_recoveries}, the
\* recovery journal state and the slab depot state {slab_count,
\* slab_config}
SuperBlockBody(v) ==
  [state |-> v.state, nonce |-> v.nonce, config |-> v.config,
   completeRecoveries |-> v.completeRecoveries,
   readOnlyRecoveries |-> v.readOnlyRecoveries,
   journal |-> v.journal, slabCount |-> v.slabCount,
   slabConfig |-> v.slabConfig]

\* the encoded super block of a VDO: header, release version, components
\* and checksum
SuperBlock(v) ==
  [kind |-> "super",
   version |-> SuperBlockVersion,
   release |-> CurrentRelease,
   body |-> SuperBlockBody(v),
   checksum |-> Checksum(CurrentRelease, SuperBlockBody(v))]

Geometries == [nonce : 0..MaxCalls, dataRegionOffset : 1..(1 + MaxIndexBlocks)]
NoGeometry == [nonce |-> 0, dataRegionOffset |-> 0]

NoPartition == [offset |-> 0, size |-> 0]
NoLayout == [p \in {BLOCK_MAP_PARTITION, BLOCK_ALLOCATOR_PARTITION,
                    RECOVERY_JOURNAL_PARTITION, SLAB_SUMMARY_PARTITION}
               |-> NoPartition]
NoConfig == [physicalBlocks |-> 0, recoveryJournalSize |-> 0, slabSize |-> 0,
             slabJournalBlocks |-> 0, logicalBlocks |-> 0]
NoSlabConfig == [slabBlocks |-> 0, dataBlocks |-> 0,
                 referenceCountBlocks |-> 0, slabJournalBlocks |-> 0]
NoJournal == [head |-> 0, tail |-> 0]
NoVDO == [live |-> FALSE, config |-> NoConfig, nonce |-> 0,
          firstBlockOffset |-> 0, layout |-> NoLayout, state |-> VDO_NEW,
          completeRecoveries |-> 0, readOnlyRecoveries |-> 0,
          journal |-> NoJournal, slabCount |-> 0,
          slabConfig |-> NoSlabConfig]
NoCP == [id |-> "none", start |-> 0, size |-> 0, bufferBlocks |-> 0,
         pbn |-> 0, result |-> VDO_SUCCESS, zeroBuffer |-> 0]
NoHeap == [vdoAllocs |-> 0, vdoFrees |-> 0, bufAllocs |-> 0, bufFrees |-> 0,
           badFrees |-> 0]
NoArgs == [config |-> NoConfig, indexBlocks |-> 0, nonce |-> 0,
           requireReadOnly |-> FALSE, newState |-> VDO_NEW]

\* layer->writer(layer, pbn, count, buffer): the first `landed` blocks of
\* the extent reach the device (all of them when the call succeeds; a
\* failed call may leave any prefix behind).  Blocks the model does not
\* track (outside DOMAIN d) are only recorded in the write log.
WriterApply(d, pbn, landed, block) ==
  [b \in DOMAIN d |-> IF pbn <= b /\ b < pbn + landed THEN block ELSE d[b]]

WriteRecord(pbn, count, block, res) ==
  [pbn |-> pbn, count |-> count, kind |-> block.kind, result |-> res]

\* outcomes of one layer->writer call of `count` blocks at pbn on device
\* content d: success, or an I/O error that leaves a prefix of the extent
\* behind (prefixes are told apart on the blocks that d tracks)
WriteOutcomes(d, pbn, count) ==
  {[result |-> VDO_SUCCESS, landed |-> count]}
    \cup {[result |-> VDO_IO_ERROR, landed |-> k] :
            k \in {j \in 0..count : j = 0 \/ (pbn + j - 1) \in DOMAIN d}}

\* load_volume_geometry on device content d (no read error)
load_volume_geometry(d) ==
  IF d[0].kind = "geometry" THEN VDO_SUCCESS ELSE VDO_BAD_MAGIC

(***************************************************************************)
(* Layout.                                                                 *)
(***************************************************************************)
\* make_vdo_layout: block map from the start, slab summary and recovery
\* journal from the end, the block allocator gets what is left; it fails
\* when nothing is left for the block allocator
make_vdo_layout(physicalBlocks, startingOffset, blockMapBlocks, journalBlocks, summaryBlocks) ==
  IF startingOffset + blockMapBlocks + journalBlocks + summaryBlocks
       >= physicalBlocks
  THEN [result |-> VDO_OUT_OF_RANGE, layout |-> NoLayout]
  ELSE LET ssOffset == physicalBlocks - summaryBlocks
           rjOffset == ssOffset - journalBlocks
           baOffset == startingOffset + blockMapBlocks
       IN [result |-> VDO_SUCCESS,
           layout |->
             [p \in DOMAIN NoLayout |->
               CASE p = BLOCK_MAP_PARTITION ->
                      [offset |-> startingOffset, size |-> blockMapBlocks]
                 [] p = BLOCK_ALLOCATOR_PARTITION ->
                      [offset |-> baOffset, size |-> rjOffset - baOffset]
                 [] p = RECOVERY_JOURNAL_PARTITION ->
                      [offset |-> rjOffset, size |-> journalBlocks]
                 [] p = SLAB_SUMMARY_PARTITION ->
                      [offset |-> ssOffset, size |-> summaryBlocks]]]

\* the layout made from the data region offset itself, not one block past
makeVDOLayoutFromConfig_atSuperBlock(config, startingOffset) ==
  make_vdo_layout(config.physicalBlocks, startingOffset - 1, RootCount,
                  config.recoveryJournalSize, SlabSummaryBlocks)

makeVDOLayoutFromConfig(config, startingOffset) ==
  make_vdo_layout(config.physicalBlocks, startingOffset, RootCount,
                  config.recoveryJournalSize, SlabSummaryBlocks)

(***************************************************************************)
(* Calls.                                                                  *)
(***************************************************************************)
Idle == pc \in {"idle", "done"}

\* the configs a caller may format with: every journal and slab size for
\* the device's block count, and one config each for physicalBlocks 0 and
\* for a block count the device does not have; an indexBlocks of -1 in
\* the arguments stands for an index configuration that
\* initialize_volume_geometry rejects
Configs ==
  [physicalBlocks : {NumBlocks},
   recoveryJournalSize : 1..MaxJournalSize,
   slabSize : 1..MaxSlabSize,
   slabJournalBlocks : {0},
   logicalBlocks : {0}]
  \cup
  [physicalBlocks : {0, NumBlocks - 1},
   recoveryJournalSize : {1},
   slabSize : {MaxSlabSize},
   slabJournalBlocks : {0},
   logicalBlocks : {0}]

\* a top-level call starts: nothing allocated, nothing written
Enter(name, a, first) ==
  /\ Idle
  /\ calls < MaxCalls
  /\ calls' = calls + 1
  /\ op' = name
  /\ args' = a
  /\ pc' = first
  /\ devAtCall' = dev
  /\ writes' = <<>>
  /\ heap' = NoHeap
  /\ cp' = NoCP
  /\ geometry' = NoGeometry
  /\ vdo' = NoVDO
  /\ trail' = <<>>
  /\ UNCHANGED <<dev, result>>
  /\ UNCHANGED otherVars

\* `step` of the running call has returned res
Trace(step, res) == trail' = Append(trail, [step |-> step, result |-> res])

\* the running call returning VDO_SUCCESS whatever the step returned
Return_success(res) ==
  /\ pc' = "done"
  /\ result' = VDO_SUCCESS

\* the running call returns res
Return(res) ==
  /\ pc' = "done"
  /\ result' = res

\* formatVDO with the caller's config and index config, and a nonce from
\* the clock
CallFormat ==
  Enter("formatVDO", [args EXCEPT !.nonce = calls + 1],
        "register_status_codes")

(***************************************************************************)
(* formatVDOWithNonce.                                                     *)
(***************************************************************************)
\* formatVDOWithNonce with the geometry written before the VDO is made
formatVDOWithNonce_next_geometryFirst(step, res) ==
  IF res # VDO_SUCCESS THEN "return"
  ELSE CASE step = "register_status_codes" -> "validateVDOConfig"
         [] step = "validateVDOConfig" -> "initialize_volume_geometry"
         [] step = "initialize_volume_geometry" -> "clear_volume_geometry"
         [] step = "clear_volume_geometry" -> "write_volume_geometry"
         [] step = "write_volume_geometry" -> "makeVDO"
         [] step = "makeAndWriteVDO" -> "return"

\* formatVDOWithNonce without the call of clear_volume_geometry
formatVDOWithNonce_next_noClear(step, res) ==
  IF res # VDO_SUCCESS THEN "return"
  ELSE CASE step = "register_status_codes" -> "validateVDOConfig"
         [] step = "validateVDOConfig" -> "initialize_volume_geometry"
         [] step = "initialize_volume_geometry" -> "makeVDO"
         [] step = "clear_volume_geometry" -> "makeVDO"
         [] step = "makeAndWriteVDO" -> "write_volume_geometry"
         [] step = "write_volume_geometry" -> "return"

\* formatVDOWithNonce with the result of makeAndWriteVDO dropped
formatVDOWithNonce_next_ignoreMakeResult(step, res) ==
  IF step = "makeAndWriteVDO" THEN "write_volume_geometry"
  ELSE IF res # VDO_SUCCESS THEN "return"
  ELSE CASE step = "register_status_codes" -> "validateVDOConfig"
         [] step = "validateVDOConfig" -> "initialize_volume_geometry"
         [] step = "initialize_volume_geometry" -> "clear_volume_geometry"
         [] step = "clear_volume_geometry" -> "makeVDO"
         [] step = "write_volume_geometry" -> "return"

\* formatVDOWithNonce with the geometry cleared before the config is
\* validated
formatVDOWithNonce_next_clearFirst(step, res) ==
  IF res # VDO_SUCCESS THEN "return"
  ELSE CASE step = "register_status_codes" -> "clear_volume_geometry"
         [] step = "clear_volume_geometry" -> "validateVDOConfig"
         [] step = "validateVDOConfig" -> "initialize_volume_geometry"
         [] step = "initialize_volume_geometry" -> "makeVDO"
         [] step = "makeAndWriteVDO" -> "write_volume_geometry"
         [] step = "write_volume_geometry" -> "return"

\* formatVDOWithNonce going on after validateVDOConfig has failed
formatVDOWithNonce_next_ignoreValidate(step, res) ==
  IF step = "validateVDOConfig" THEN "initialize_volume_geometry"
  ELSE IF res # VDO_SUCCESS THEN "return"
  ELSE CASE step = "register_status_codes" -> "validateVDOConfig"
         [] step = "initialize_volume_geometry" -> "clear_volume_geometry"
         [] step = "clear_volume_geometry" -> "makeVDO"
         [] step = "makeAndWriteVDO" -> "write_volume_geometry"
         [] step = "write_volume_geometry" -> "return"

\* where formatVDOWithNonce goes after `step` returned res
formatVDOWithNonce_next(step, res) ==
  IF res # VDO_SUCCESS THEN "return"
  ELSE CASE step = "register_status_codes" -> "validateVDOConfig"
         [] step = "validateVDOConfig" -> "initialize_volume_geometry"
         [] step = "initialize_volume_geometry" -> "clear_volume_geometry"
         [] step = "clear_volume_geometry" -> "makeVDO"
         [] step = "makeAndWriteVDO" -> "write_volume_geometry"
         [] step = "write_volume_geometry" -> "return"

\* formatVDOWithNonce moves on from `step`, which returned res
FormatGoto(step, res) ==
  LET next == formatVDOWithNonce_next(step, res)
  IN IF next = "return" THEN Return(res)
     ELSE pc' = next /\ UNCHANGED result

register_status_codes ==
  /\ pc = "register_status_codes"
  /\ \E res \in {VDO_SUCCESS, UDS_ERROR} :
       /\ FormatGoto("register_status_codes", res)
       /\ Trace("register_status_codes", res)
  /\ UNCHANGED <<dev, devAtCall, writes, op, args, geometry, vdo, cp, heap,
                 calls>>
  /\ UNCHANGED otherVars

\* validateVDOConfig(config, blockCount, false)
validateVDOConfig(config, blockCount) ==
  IF config.physicalBlocks # blockCount THEN VDO_OUT_OF_RANGE
  ELSE VDO_SUCCESS

ValidateConfig ==
  /\ pc = "validateVDOConfig"
  /\ FormatGoto("validateVDOConfig",
                validateVDOConfig(args.config, NumBlocks))
  /\ Trace("validateVDOConfig", validateVDOConfig(args.config, NumBlocks))
  /\ UNCHANGED <<dev, devAtCall, writes, op, args, geometry, vdo, cp, heap,
                 calls>>
  /\ UNCHANGED otherVars

\* initialize_volume_geometry: the index region starts at PBN 1, the data
\* region right after it
initialize_volume_geometry ==
  /\ pc = "initialize_volume_geometry"
  /\ IF args.indexBlocks < 0
     THEN /\ FormatGoto("initialize_volume_geometry", UDS_ERROR)
          /\ Trace("initialize_volume_geometry", UDS_ERROR)
          /\ UNCHANGED geometry
     ELSE /\ geometry' = [nonce |-> args.nonce,
                          dataRegionOffset |-> 1 + args.indexBlocks]
          /\ FormatGoto("initialize_volume_geometry", VDO_SUCCESS)
          /\ Trace("initialize_volume_geometry", VDO_SUCCESS)
  /\ UNCHANGED <<dev, devAtCall, writes, op, args, vdo, cp, heap, calls>>
  /\ UNCHANGED otherVars

\* one layer->writer call of one block at pbn
WriteOneBlock(pbn, block, out) ==
  /\ dev' = WriterApply(dev, pbn, out.landed, block)
  /\ writes' = Append(writes, WriteRecord(pbn, 1, block, out.result))

\* clear_volume_geometry with the layer's result dropped
clear_volume_geometry_resultDropped ==
  /\ pc = "clear_volume_geometry"
  /\ \E out \in WriteOutcomes(dev, 0, 1) :
       /\ WriteOneBlock(0, ZeroBlock, out)
       /\ FormatGoto("clear_volume_geometry", VDO_SUCCESS)
       /\ Trace("clear_volume_geometry", VDO_SUCCESS)
  /\ UNCHANGED <<devAtCall, op, args, geometry, vdo, cp, heap, calls>>
  /\ UNCHANGED otherVars

\* clear_volume_geometry: one zero block at PBN 0
clear_volume_geometry ==
  /\ pc = "clear_volume_geometry"
  /\ \E out \in WriteOutcomes(dev, 0, 1) :
       /\ WriteOneBlock(0, ZeroBlock, out)
       /\ FormatGoto("clear_volume_geometry", out.result)
       /\ Trace("clear_volume_geometry", out.result)
  /\ UNCHANGED <<devAtCall, op, args, geometry, vdo, cp, heap, calls>>
  /\ UNCHANGED otherVars

\* write_volume_geometry: the geometry block at PBN 0
write_volume_geometry ==
  /\ pc = "write_volume_geometry"
  /\ \E out \in WriteOutcomes(dev, 0, 1) :
       /\ WriteOneBlock(0, GeometryBlock(geometry), out)
       /\ FormatGoto("write_volume_geometry", out.result)
       /\ Trace("write_volume_geometry", out.result)
  /\ UNCHANGED <<devAtCall, op, args, geometry, vdo, cp, heap, calls>>
  /\ UNCHANGED otherVars

(***************************************************************************)
(* clearPartition.                                                         *)
(***************************************************************************)
RECURSIVE bufferBlocksLoop(_, _)
\* the for loop of clearPartition that sizes the zero buffer
bufferBlocksLoop(bufferBlocks, n) ==
  IF bufferBlocks < MaxBufferBlocks /\ n % 2 = 0
  THEN bufferBlocksLoop(bufferBlocks * 2, n \div 2)
  ELSE bufferBlocks

RECURSIVE bufferBlocksLoop_capInclusive(_, _)
\* the sizing loop with <= in place of < in its bound
bufferBlocksLoop_capInclusive(bufferBlocks, n) ==
  IF bufferBlocks <= MaxBufferBlocks /\ n % 2 = 0
  THEN bufferBlocksLoop_capInclusive(bufferBlocks * 2, n \div 2)
  ELSE bufferBlocks

BufferBlocks_capInclusive(size) == bufferBlocksLoop_capInclusive(1, size)

\* lines 174-179 of clearPartition
BufferBlocks(size) == bufferBlocksLoop(1, size)

\* the write loop going on after a failed write
WriteLoopContinues_ignoresResult(pbn, start, size, res) ==
  pbn < start + size

\* the condition of clearPartition's write loop
WriteLoopContinues(pbn, start, size, res) ==
  pbn < start + size /\ res = VDO_SUCCESS

\* the write loop stepping by one block
WriteLoopAdvance_byOne(pbn, bufferBlocks) == pbn + 1

\* the increment of clearPartition's write loop
WriteLoopAdvance(pbn, bufferBlocks) == pbn + bufferBlocks

\* clearPartition(layer, layout, id) up to the allocation of the zero buffer
clearPartition(id) ==
  LET partition == vdo.layout[id]
      size == partition.size
      start == partition.offset
      bufferBlocks == BufferBlocks(size)
  IN \E res \in {VDO_SUCCESS, VDO_OUT_OF_MEMORY} :
       IF res # VDO_SUCCESS
       THEN /\ cp' = [NoCP EXCEPT !.id = id, !.start = start, !.size = size,
                                  !.bufferBlocks = bufferBlocks,
                                  !.result = res]
            /\ pc' = "clearPartition_return"
            /\ UNCHANGED heap
       ELSE /\ cp' = [id |-> id, start |-> start, size |-> size,
                      bufferBlocks |-> bufferBlocks, pbn |-> start,
                      result |-> res,
                      zeroBuffer |-> bufferBlocks * VDO_BLOCK_SIZE]
            /\ heap' = [heap EXCEPT !.bufAllocs = @ + 1]
            /\ pc' = "clearPartition_write"

clearBlockMap ==
  /\ pc = "clearBlockMap"
  /\ clearPartition(BLOCK_MAP_PARTITION)
  /\ UNCHANGED <<dev, devAtCall, writes, op, result, args, geometry, vdo,
                 calls, trail>>
  /\ UNCHANGED otherVars

\* the slab summary partition cleared in place of the recovery journal
clearJournal_slabSummary ==
  /\ pc = "clearJournal"
  /\ clearPartition(SLAB_SUMMARY_PARTITION)
  /\ UNCHANGED <<dev, devAtCall, writes, op, result, args, geometry, vdo,
                 calls, trail>>
  /\ UNCHANGED otherVars

\* line 231 of makeAndWriteVDO
clearJournal ==
  /\ pc = "clearJournal"
  /\ clearPartition(RECOVERY_JOURNAL_PARTITION)
  /\ UNCHANGED <<dev, devAtCall, writes, op, result, args, geometry, vdo,
                 calls, trail>>
  /\ UNCHANGED otherVars

\* one pass of the write loop: a chunk of bufferBlocks zero blocks at pbn
clearPartition_write ==
  /\ pc = "clearPartition_write"
  /\ WriteLoopContinues(cp.pbn, cp.start, cp.size, cp.result)
  /\ \E out \in WriteOutcomes(dev, cp.pbn, cp.bufferBlocks) :
       /\ dev' = WriterApply(dev, cp.pbn, out.landed, ZeroBlock)
       /\ writes' = Append(writes, WriteRecord(cp.pbn, cp.bufferBlocks,
                                               ZeroBlock, out.result))
       /\ cp' = [cp EXCEPT !.result = out.result,
                           !.pbn = WriteLoopAdvance(cp.pbn, cp.bufferBlocks)]
  /\ UNCHANGED <<devAtCall, pc, op, result, args, geometry, vdo, heap, calls, trail>>
  /\ UNCHANGED otherVars

\* the write loop is over: FREE(zeroBuffer); return result
clearPartition_free ==
  /\ pc = "clearPartition_write"
  /\ ~WriteLoopContinues(cp.pbn, cp.start, cp.size, cp.result)
  /\ heap' = [heap EXCEPT
                !.bufFrees = @ + 1,
                !.badFrees = IF cp.zeroBuffer = 0 THEN @ + 1 ELSE @]
  /\ cp' = [cp EXCEPT !.zeroBuffer = 0]
  /\ pc' = "clearPartition_return"
  /\ UNCHANGED <<dev, devAtCall, writes, op, result, args, geometry, vdo,
                 calls, trail>>
  /\ UNCHANGED otherVars

(***************************************************************************)
(* makeAndWriteVDO.                                                        *)
(***************************************************************************)
\* the allocation accounting after freeVDO(&v)
freeVDO(h, v) ==
  [h EXCEPT !.vdoFrees = @ + 1,
            !.badFrees = IF v.live THEN @ ELSE @ + 1]

\* makeAndWriteVDO with the recovery journal cleared before the block map
makeAndWriteVDO_next_journalFirst(step, res) ==
  IF res # VDO_SUCCESS THEN "exit"
  ELSE CASE step = "makeVDO" -> "configureVDO"
         [] step = "configureVDO" -> "clearJournal"
         [] step = "clearJournal" -> "clearBlockMap"
         [] step = "clearBlockMap" -> "saveVDOComponents"
         [] step = "saveVDOComponents" -> "exit"

\* makeAndWriteVDO going on after configureVDO has failed
makeAndWriteVDO_next_ignoreConfigure(step, res) ==
  IF step = "configureVDO" THEN "clearBlockMap"
  ELSE IF res # VDO_SUCCESS THEN "exit"
  ELSE CASE step = "makeVDO" -> "configureVDO"
         [] step = "clearBlockMap" -> "clearJournal"
         [] step = "clearJournal" -> "saveVDOComponents"
         [] step = "saveVDOComponents" -> "exit"

\* where makeAndWriteVDO goes after `step` returned res
makeAndWriteVDO_next(step, res) ==
  IF res # VDO_SUCCESS THEN "exit"
  ELSE CASE step = "makeVDO" -> "configureVDO"
         [] step = "configureVDO" -> "clearBlockMap"
         [] step = "clearBlockMap" -> "clearJournal"
         [] step = "clearJournal" -> "saveVDOComponents"
         [] step = "saveVDOComponents" -> "exit"

\* makeAndWriteVDO returning configureVDO's error without freeVDO
makeAndWriteVDO_frees_notAfterConfigure(step) ==
  step \notin {"makeVDO", "configureVDO"}

\* whether makeAndWriteVDO calls freeVDO when it leaves after `step`
makeAndWriteVDO_frees(step) == step # "makeVDO"

\* makeAndWriteVDO moves on from `step`, which returned res and left the
\* VDO as v and the accounting as h; on the way out it frees the VDO and
\* formatVDOWithNonce takes over
MakeAndWriteGoto(step, res, v, h) ==
  LET next == makeAndWriteVDO_next(step, res)
  IN /\ Trace(step, res)
     /\ IF next = "exit"
        THEN /\ IF makeAndWriteVDO_frees(step)
                THEN vdo' = NoVDO /\ heap' = freeVDO(h, v)
                ELSE vdo' = v /\ heap' = h
             /\ FormatGoto("makeAndWriteVDO", res)
        ELSE /\ pc' = next
             /\ vdo' = v
             /\ heap' = h
             /\ UNCHANGED result

\* makeVDO(layer, &vdo), called by makeAndWriteVDO and by
\* updateVDOSuperBlockState
makeVDO ==
  /\ pc = "makeVDO"
  /\ \E res \in {VDO_SUCCESS, VDO_OUT_OF_MEMORY} :
       LET v == IF res = VDO_SUCCESS THEN [NoVDO EXCEPT !.live = TRUE]
                ELSE vdo
           h == IF res = VDO_SUCCESS
                THEN [heap EXCEPT !.vdoAllocs = @ + 1] ELSE heap
       IN IF op = "formatVDO"
          THEN MakeAndWriteGoto("makeVDO", res, v, h)
          ELSE /\ Trace("makeVDO", res)
               /\ vdo' = v
               /\ heap' = h
               /\ IF res = VDO_SUCCESS
                  THEN pc' = "prepareSuperBlock" /\ UNCHANGED result
                  ELSE Return(res)
  /\ UNCHANGED <<dev, devAtCall, writes, op, args, geometry, cp, calls>>
  /\ UNCHANGED otherVars

\* the slab count rounded up
calculate_slab_count_roundUp(depotSize, slabSize) ==
  (depotSize + slabSize - 1) \div slabSize

\* make_slab_depot: the number of whole slabs in the depot partition
calculate_slab_count(depotSize, slabSize) == depotSize \div slabSize

\* makeAndWriteVDO without line 216: the nonce stays as makeVDO made it
makeAndWriteVDO_setup_noNonce(v, config, g) ==
  [v EXCEPT !.config = config,
            !.firstBlockOffset = g.dataRegionOffset]

\* lines 215-217 of makeAndWriteVDO: the config, the nonce and the data
\* region offset are copied into the VDO
makeAndWriteVDO_setup(v, config, g) ==
  [v EXCEPT !.config = config,
            !.nonce = g.nonce,
            !.firstBlockOffset = g.dataRegionOffset]

\* the state of the recovery journal that make_recovery_journal makes
NewJournal == [head |-> 1, tail |-> 1]

\* the layout starting on the super block
LayoutStartingOffset_atOrigin(v) == v.firstBlockOffset

\* lines 75-78 of configureVDO: the layout starts 1 block past the
\* beginning of the data region
LayoutStartingOffset(v) == v.firstBlockOffset + 1

\* n is a power of two
is_power_of_two(n) == \E j \in 0..MaxShift : 2^j = n

\* configure_slab(slabSize, slabJournalBlocks, &slabConfig): the slab size
\* is a power of two, the slab journal takes less than half of the slab,
\* the reference counts of the remaining blocks take whole blocks and at
\* least one data block is left
configure_slab(slabSize, slabJournalBlocks) ==
  LET refBlocks == (slabSize - slabJournalBlocks + COUNTS_PER_BLOCK - 1)
                     \div COUNTS_PER_BLOCK
      dataBlocks == (slabSize - slabJournalBlocks - refBlocks)
                      % BlockCountModulus
  IN IF \/ ~is_power_of_two(slabSize)
        \/ 2 * slabJournalBlocks >= slabSize
        \/ dataBlocks < 1
     THEN [result |-> VDO_OUT_OF_RANGE, config |-> NoSlabConfig]
     ELSE [result |-> VDO_SUCCESS,
           config |-> [slabBlocks |-> slabSize,
                       dataBlocks |-> dataBlocks,
                       referenceCountBlocks |-> refBlocks,
                       slabJournalBlocks |-> slabJournalBlocks]]

\* the slot of an entry in its page, taken for the number of the page
computePageNumber_slot(lbn) == lbn % BLOCK_MAP_ENTRIES_PER_PAGE

\* blockMapInternals.h, computePageNumber(lbn): the leaf page that holds
\* the entry of logical block lbn
computePageNumber(lbn) == lbn \div BLOCK_MAP_ENTRIES_PER_PAGE

\* the leaf pages that hold `entries` entries
leafPages(entries) ==
  IF entries = 0 THEN 0 ELSE computePageNumber(entries - 1) + 1

\* the interior pages of one root over n pages: the pages are folded up
\* the tree until at most one page remains
RECURSIVE foldPages(_)
foldPages(n) ==
  IF n <= 1 THEN 0
  ELSE LET up == (n + BLOCK_MAP_ENTRIES_PER_PAGE - 1)
                   \div BLOCK_MAP_ENTRIES_PER_PAGE
       IN up + foldPages(up)

\* compute_forest_size(logicalBlocks, rootCount): the leaf pages and, for
\* every root, the interior pages over its share of the leaves
compute_forest_size(entries, rootCount) ==
  leafPages(entries)
    + rootCount * foldPages((leafPages(entries) + rootCount - 1)
                              \div rootCount)

\* computeBlockMapPageCount(entries), for the fixed root count
computeBlockMapPageCount(entries) == compute_forest_size(entries, RootCount)

\* configureVDO going on after configure_slab has failed
configureVDO_result_ignoresSlabConfig(layoutResult, slabResult, slabs) ==
  IF layoutResult # VDO_SUCCESS THEN layoutResult
  ELSE IF slabs = 0 THEN VDO_OUT_OF_RANGE
  ELSE VDO_SUCCESS

\* what configureVDO returns when no allocation fails: the first error of
\* makeVDOLayoutFromConfig (line 80), configure_slab (line 99) and
\* make_slab_depot (line 111)
configureVDO_result(layoutResult, slabResult, slabs) ==
  IF layoutResult # VDO_SUCCESS THEN layoutResult
  ELSE IF slabResult # VDO_SUCCESS THEN slabResult
  ELSE IF slabs = 0 THEN VDO_OUT_OF_RANGE
  ELSE VDO_SUCCESS

\* lines 116-117 of configureVDO
configureVDO_dataBlocks(slabConfig, slabs) ==
  (slabConfig.dataBlocks * slabs) % BlockCountModulus

\* the logical blocks derived whatever the config asks for
configureVDO_logicalBlocks_alwaysDerived(config, dataBlocks) ==
  (dataBlocks - compute_forest_size(dataBlocks, RootCount))
    % BlockCountModulus

\* the forest size and the data blocks exchanged in the subtraction
configureVDO_logicalBlocks_reversed(config, dataBlocks) ==
  IF config.logicalBlocks = 0
  THEN (compute_forest_size(dataBlocks, RootCount) - dataBlocks)
         % BlockCountModulus
  ELSE config.logicalBlocks

\* lines 115-121 of configureVDO: the logical blocks of the VDO
configureVDO_logicalBlocks(config, dataBlocks) ==
  IF config.logicalBlocks = 0
  THEN (dataBlocks - compute_forest_size(dataBlocks, RootCount))
         % BlockCountModulus
  ELSE config.logicalBlocks

\* configureVDO(vdo), after lines 215-217 of makeAndWriteVDO
configureVDO ==
  /\ pc = "configureVDO"
  /\ LET filled == makeAndWriteVDO_setup(vdo, args.config, geometry)
         made == makeVDOLayoutFromConfig(filled.config,
                                         LayoutStartingOffset(filled))
         slab == configure_slab(filled.config.slabSize,
                                filled.config.slabJournalBlocks)
         depot == made.layout[BLOCK_ALLOCATOR_PARTITION]
         slabs == calculate_slab_count(depot.size, filled.config.slabSize)
         res == configureVDO_result(made.result, slab.result, slabs)
         dataBlocks == configureVDO_dataBlocks(slab.config, slabs)
         logicalBlocks == configureVDO_logicalBlocks(filled.config,
                                                     dataBlocks)
     IN \/ /\ res # VDO_SUCCESS
           /\ MakeAndWriteGoto("configureVDO", res,
                               [filled EXCEPT !.layout = made.layout], heap)
        \/ /\ res = VDO_SUCCESS
           /\ \E r \in {VDO_SUCCESS, VDO_OUT_OF_MEMORY} :
                MakeAndWriteGoto("configureVDO", r,
                                 [filled EXCEPT
                                    !.layout = made.layout,
                                    !.journal = NewJournal,
                                    !.slabConfig = slab.config,
                                    !.slabCount = slabs,
                                    !.config.logicalBlocks = logicalBlocks,
                                    !.state = VDO_NEW],
                                 heap)
  /\ UNCHANGED <<dev, devAtCall, writes, op, args, geometry, cp, calls>>
  /\ UNCHANGED otherVars

\* clearPartition has returned cp.result to makeAndWriteVDO
clearPartition_return ==
  /\ pc = "clearPartition_return"
  /\ op = "formatVDO"
  /\ MakeAndWriteGoto(IF cp.id = BLOCK_MAP_PARTITION THEN "clearBlockMap"
                      ELSE "clearJournal",
                      cp.result, vdo, heap)
  /\ UNCHANGED <<dev, devAtCall, writes, op, args, geometry, cp, calls>>
  /\ UNCHANGED otherVars

\* saveVDOComponents(vdo): the encoded super block goes to the first block
\* of the data region
saveVDOComponents ==
  /\ pc = "saveVDOComponents"
  /\ \E out \in WriteOutcomes(dev, vdo.firstBlockOffset, 1) :
       /\ WriteOneBlock(vdo.firstBlockOffset, SuperBlock(vdo), out)
       /\ MakeAndWriteGoto("saveVDOComponents", out.result, vdo, heap)
  /\ UNCHANGED <<devAtCall, op, args, geometry, cp, calls>>
  /\ UNCHANGED otherVars

(***************************************************************************)
(* updateVDOSuperBlockState.                                               *)
(***************************************************************************)
\* forceVDORebuild not requiring read-only mode
CallForceRebuild_notRequired ==
  Enter("forceVDORebuild",
        [args EXCEPT !.requireReadOnly = FALSE,
                       !.newState = VDO_FORCE_REBUILD],
        "makeVDO")

CallForceRebuild ==
  Enter("forceVDORebuild",
        [args EXCEPT !.requireReadOnly = TRUE,
                       !.newState = VDO_FORCE_REBUILD],
        "makeVDO")

\* setVDOReadOnlyMode requiring read-only mode
CallSetReadOnly_requiresReadOnly ==
  Enter("setVDOReadOnlyMode",
        [args EXCEPT !.requireReadOnly = TRUE,
                       !.newState = VDO_READ_ONLY_MODE],
        "makeVDO")

CallSetReadOnly ==
  Enter("setVDOReadOnlyMode",
        [args EXCEPT !.requireReadOnly = FALSE,
                       !.newState = VDO_READ_ONLY_MODE],
        "makeVDO")

\* load_super_block on the block at pbn of device content d (no read
\* error): the magic, then the version of the header, then the checksum
load_super_block(d, pbn) ==
  IF pbn \notin DOMAIN d \/ d[pbn].kind # "super" THEN VDO_BAD_MAGIC
  ELSE IF d[pbn].version # SuperBlockVersion THEN VDO_UNSUPPORTED_VERSION
  ELSE IF d[pbn].checksum # Checksum(d[pbn].release, d[pbn].body)
  THEN VDO_BAD_CHECKSUM
  ELSE VDO_SUCCESS

\* validateVDOVersion(vdo): the release version of the loaded super block
\* is the current one
validateVDOVersion(sb) ==
  IF sb.release = CurrentRelease THEN VDO_SUCCESS
  ELSE VDO_UNSUPPORTED_VERSION

\* prepareSuperBlock going on to validateVDOVersion whatever
\* load_super_block returned
prepareSuperBlock_ignoresLoad(d) ==
  IF load_volume_geometry(d) # VDO_SUCCESS THEN load_volume_geometry(d)
  ELSE IF d[d[0].body.dataRegionOffset].kind # "super" THEN VDO_BAD_MAGIC
  ELSE validateVDOVersion(d[d[0].body.dataRegionOffset])

\* prepareSuperBlock without lines 308-311
prepareSuperBlock_noVersionCheck(d) ==
  IF load_volume_geometry(d) # VDO_SUCCESS THEN load_volume_geometry(d)
  ELSE load_super_block(d, d[0].body.dataRegionOffset)

\* prepareSuperBlock(vdo): what it returns on device content d when no
\* read fails
prepareSuperBlock(d) ==
  IF load_volume_geometry(d) # VDO_SUCCESS THEN load_volume_geometry(d)
  ELSE IF load_super_block(d, d[0].body.dataRegionOffset) # VDO_SUCCESS
  THEN load_super_block(d, d[0].body.dataRegionOffset)
  ELSE validateVDOVersion(d[d[0].body.dataRegionOffset])

\* decoding that leaves the recovery counts and the journal state of the
\* new VDO as makeVDO made them
decodeVDOComponent_dropsRecoveries(v, g, sb) ==
  [v EXCEPT !.firstBlockOffset = g.dataRegionOffset,
            !.state = sb.state, !.nonce = sb.nonce, !.config = sb.config,
            !.slabCount = sb.slabCount, !.slabConfig = sb.slabConfig]

\* setLoadConfigFromGeometry and decodeVDOComponent: the VDO takes the
\* data region offset of geometry block g and every component of the super
\* block body sb
decodeVDOComponent(v, g, sb) ==
  [v EXCEPT !.firstBlockOffset = g.dataRegionOffset,
            !.state = sb.state, !.nonce = sb.nonce, !.config = sb.config,
            !.completeRecoveries = sb.completeRecoveries,
            !.readOnlyRecoveries = sb.readOnlyRecoveries,
            !.journal = sb.journal, !.slabCount = sb.slabCount,
            !.slabConfig = sb.slabConfig]

\* lines 334-338 of updateVDOSuperBlockState
PrepareSuperBlock ==
  /\ pc = "prepareSuperBlock"
  /\ \E res \in {prepareSuperBlock(dev), VDO_IO_ERROR} :
       IF res # VDO_SUCCESS
       THEN /\ vdo' = NoVDO
            /\ heap' = freeVDO(heap, vdo)
            /\ Trace("prepareSuperBlock", res)
            /\ Return(res)
       ELSE LET sb == dev[dev[0].body.dataRegionOffset].body
            IN /\ vdo' = decodeVDOComponent(vdo, dev[0].body, sb)
               /\ pc' = "checkReadOnly"
               /\ Trace("prepareSuperBlock", res)
               /\ UNCHANGED <<heap, result>>
  /\ UNCHANGED <<dev, devAtCall, writes, op, args, geometry, cp, calls>>
  /\ UNCHANGED otherVars

\* the read-only check letting a dirty VDO through
updateVDOSuperBlockState_refuses_dirtyAllowed(requireReadOnly, v) ==
  requireReadOnly /\ v.state \notin {VDO_READ_ONLY_MODE, VDO_DIRTY}

\* line 340: requireReadOnly && !inReadOnlyMode(vdo)
updateVDOSuperBlockState_refuses(requireReadOnly, v) ==
  requireReadOnly /\ v.state # VDO_READ_ONLY_MODE

\* lines 340-346 of updateVDOSuperBlockState
CheckReadOnly ==
  /\ pc = "checkReadOnly"
  /\ IF updateVDOSuperBlockState_refuses(args.requireReadOnly, vdo)
     THEN /\ vdo' = NoVDO
          /\ heap' = freeVDO(heap, vdo)
          /\ Return(VDO_NOT_READ_ONLY)
          /\ Trace("inReadOnlyMode", VDO_NOT_READ_ONLY)
     ELSE /\ vdo' = [vdo EXCEPT !.state = args.newState]
          /\ pc' = "saveReconfiguredVDO"
          /\ Trace("inReadOnlyMode", VDO_SUCCESS)
          /\ UNCHANGED <<heap, result>>
  /\ UNCHANGED <<dev, devAtCall, writes, op, args, geometry, cp, calls>>
  /\ UNCHANGED otherVars

\* saveReconfiguredVDO writing one block past the super block
saveReconfiguredVDO_atLayoutStart ==
  /\ pc = "saveReconfiguredVDO"
  /\ \E out \in WriteOutcomes(dev, vdo.firstBlockOffset + 1, 1) :
       /\ WriteOneBlock(vdo.firstBlockOffset + 1, SuperBlock(vdo), out)
       /\ Trace("saveReconfiguredVDO", out.result)
       /\ Return(out.result)
  /\ vdo' = NoVDO
  /\ heap' = freeVDO(heap, vdo)
  /\ UNCHANGED <<devAtCall, op, args, geometry, cp, calls>>
  /\ UNCHANGED otherVars

\* saveReconfiguredVDO counting every save in read_only_recoveries
saveReconfiguredVDO_countsRecoveries ==
  /\ pc = "saveReconfiguredVDO"
  /\ \E out \in WriteOutcomes(dev, vdo.firstBlockOffset, 1) :
       /\ WriteOneBlock(vdo.firstBlockOffset,
                        SuperBlock([vdo EXCEPT
                                      !.readOnlyRecoveries = (@ + 1) % 4]),
                        out)
       /\ Trace("saveReconfiguredVDO", out.result)
       /\ Return(out.result)
  /\ vdo' = NoVDO
  /\ heap' = freeVDO(heap, vdo)
  /\ UNCHANGED <<devAtCall, op, args, geometry, cp, calls>>
  /\ UNCHANGED otherVars

\* lines 348-350 of updateVDOSuperBlockState
saveReconfiguredVDO ==
  /\ pc = "saveReconfiguredVDO"
  /\ \E out \in WriteOutcomes(dev, vdo.firstBlockOffset, 1) :
       /\ WriteOneBlock(vdo.firstBlockOffset, SuperBlock(vdo), out)
       /\ Trace("saveReconfiguredVDO", out.result)
       /\ Return(out.result)
  /\ vdo' = NoVDO
  /\ heap' = freeVDO(heap, vdo)
  /\ UNCHANGED <<devAtCall, op, args, geometry, cp, calls>>
  /\ UNCHANGED otherVars

(***************************************************************************)
(* Specifications.                                                         *)
(***************************************************************************)
\* a VDO that has been in use since it was formatted
UsedVDO(st) ==
  [NoVDO EXCEPT !.state = st,
                !.config = [physicalBlocks |-> NumBlocks,
                            recoveryJournalSize |-> 1, slabSize |-> 2,
                            slabJournalBlocks |-> 0, logicalBlocks |-> 1],
                !.completeRecoveries = 2, !.readOnlyRecoveries = 1,
                !.journal = [head |-> 3, tail |-> 5], !.slabCount = 1,
                !.slabConfig = configure_slab(2, 0).config]

\* super blocks of a volume in read-only mode that do not load: the
\* version of the header altered in a block whose checksum does not match
\* either, a state byte altered under the old checksum, and a block of
\* another release
UnloadableSuperBlocks ==
  LET sb == SuperBlock(UsedVDO(VDO_READ_ONLY_MODE))
  IN {[sb EXCEPT !.version = AlteredVersion,
                 !.checksum = Checksum(OtherRelease, sb.body)],
      [sb EXCEPT !.body.state = VDO_DIRTY],
      [sb EXCEPT !.release = OtherRelease,
                 !.checksum = Checksum(OtherRelease, sb.body)]}

(***************************************************************************)
(* The programs beside vdoConfig.c, at rest.                               *)
(***************************************************************************)
\* no admin operation has been asked for
SuspendIdle ==
  /\ adminCompletion = [type |-> "none", phase |-> 0, result |-> VDO_SUCCESS,
                        finished |-> FALSE]
  /\ subTask = [result |-> VDO_SUCCESS, callbackThreadID |-> "none",
                pending |-> "none"]
  /\ kernelVDO = [state |-> VDO_NEW, closeRequired |-> FALSE,
                  adminState |-> "none"]
  /\ superBlockSaves = <<>>
  /\ adminLog = <<>>

\* vdoConfig.c is not running
FormatIdle ==
  /\ dev = <<>>
  /\ devAtCall = <<>>
  /\ writes = <<>>
  /\ pc = "idle"
  /\ op = "none"
  /\ result = VDO_SUCCESS
  /\ args = NoArgs
  /\ geometry = NoGeometry
  /\ vdo = NoVDO
  /\ cp = NoCP
  /\ heap = NoHeap
  /\ calls = 0
  /\ trail = <<>>

\* nothing has been parsed
ParseIdle == parse = [fn |-> "none"]

\* no thread is logging: the mutex is free and the globals hold their
\* initializers, minisyslog.c:36-44
LogIdle ==
  /\ logger = [mutex |-> 0, log_socket |-> -1, log_ident |-> "NULL",
               log_option |-> {}, default_facility |-> "LOG_USER"]
  /\ descriptors = [fd \in 3..(2 + MaxDescriptors) |-> "free"]
  /\ logThreads = [t \in 1..NumThreads |->
                     [pc |-> "idle", fn |-> "none", option |-> {},
                      facility |-> "0", ret |-> "none", sent |-> "none"]]

OthersIdle ==
  /\ SuspendIdle
  /\ ParseIdle
  /\ LogIdle
  /\ alloc = [called |-> FALSE]

\* a device that was never a VDO, or one a previous format has left behind
InitialDevices ==
  {[b \in 0..(NumBlocks - 1) |-> IF b = 0 THEN first ELSE DataBlock(b)] :
     first \in {ZeroBlock, DataBlock(0)}}
  \cup
  {[b \in 0..(NumBlocks - 1) |->
      IF b = 0
      THEN GeometryBlock([nonce |-> 0, dataRegionOffset |-> off])
      ELSE IF b = off
      THEN SuperBlock(UsedVDO(st))
      ELSE DataBlock(b)] :
     off \in 1..(1 + MaxIndexBlocks), st \in VDOStates}
  \cup
  {[b \in 0..(NumBlocks - 1) |->
      IF b = 0
      THEN GeometryBlock([nonce |-> 0, dataRegionOffset |-> 1])
      ELSE IF b = 1 THEN sb ELSE DataBlock(b)] :
     sb \in UnloadableSuperBlocks}

Init ==
  /\ dev \in InitialDevices
  /\ devAtCall = dev
  /\ writes = <<>>
  /\ pc = "idle"
  /\ op = "none"
  /\ result = VDO_SUCCESS
  /\ \E c \in Configs, ib \in (-1)..MaxIndexBlocks :
       args = [NoArgs EXCEPT !.config = c, !.indexBlocks = ib]
  /\ geometry = NoGeometry
  /\ vdo = NoVDO
  /\ cp = NoCP
  /\ heap = NoHeap
  /\ calls = 0
  /\ trail = <<>>
  /\ OthersIdle

Next ==
  \/ CallFormat
  \/ register_status_codes
  \/ ValidateConfig
  \/ initialize_volume_geometry
  \/ clear_volume_geometry
  \/ makeVDO
  \/ configureVDO
  \/ clearBlockMap
  \/ clearJournal
  \/ clearPartition_write
  \/ clearPartition_free
  \/ clearPartition_return
  \/ saveVDOComponents
  \/ write_volume_geometry
  \/ CallForceRebuild
  \/ CallSetReadOnly
  \/ PrepareSuperBlock
  \/ CheckReadOnly
  \/ saveReconfiguredVDO

Spec == Init /\ [][Next]_vars

(***************************************************************************)
(* clearPartition on its own.                                              *)
(***************************************************************************)
RECURSIVE Pow2(_)
Pow2(j) == IF j = 0 THEN 1 ELSE 2 * Pow2(j - 1)

ClearSizes == {m * Pow2(j) : m \in 0..MaxMult, j \in 0..MaxShift}

\* clearPartition is entered for the block map partition of a layout whose
\* block map partition is [start, start + size); the device's content is
\* not tracked, the calls to layer->writer are
InitClear ==
  /\ dev = <<>>
  /\ devAtCall = dev
  /\ writes = <<>>
  /\ pc = "clearBlockMap"
  /\ op = "clearPartition"
  /\ result = VDO_SUCCESS
  /\ args = NoArgs
  /\ geometry = NoGeometry
  /\ \E start \in 0..MaxStart, size \in ClearSizes :
       vdo = [NoVDO EXCEPT
                !.live = TRUE,
                !.layout = [NoLayout EXCEPT
                              ![BLOCK_MAP_PARTITION] =
                                 [offset |-> start, size |-> size]]]
  /\ cp = NoCP
  /\ heap = [NoHeap EXCEPT !.vdoAllocs = 1]
  /\ calls = 1
  /\ trail = <<>>
  /\ OthersIdle

\* clearPartition returns to a caller that does nothing more
clearPartition_done ==
  /\ pc = "clearPartition_return"
  /\ op = "clearPartition"
  /\ Return(cp.result)
  /\ Trace("clearPartition", cp.result)
  /\ UNCHANGED <<dev, devAtCall, writes, op, args, geometry, vdo, cp, heap,
                 calls>>
  /\ UNCHANGED otherVars

NextClear ==
  \/ clearBlockMap
  \/ clearPartition_write
  \/ clearPartition_free
  \/ clearPartition_done

SpecClear == InitClear /\ [][NextClear]_vars

(***************************************************************************)
(* makeAndWriteVDO from configureVDO on, over a range of device sizes.     *)
(***************************************************************************)
LayoutConfigs == [physicalBlocks : 1..MaxPhysical,
                  recoveryJournalSize : 1..MaxJournalSize,
                  slabSize : 1..MaxLayoutSlabSize,
                  slabJournalBlocks : 0..MaxSlabJournalBlocks,
                  logicalBlocks : {0, 1, MaxLogical}]

\* makeAndWriteVDO has made the VDO and is about to configure it, for a
\* config of any size and a geometry with any data region offset; the
\* device's content is not tracked, the calls to layer->writer are
InitLayout ==
  /\ dev = <<>>
  /\ devAtCall = dev
  /\ writes = <<>>
  /\ pc = "configureVDO"
  /\ op = "formatVDO"
  /\ result = VDO_SUCCESS
  /\ \E c \in LayoutConfigs :
       args = [NoArgs EXCEPT !.config = c, !.nonce = 1]
  /\ \E off \in 1..MaxOffset :
       geometry = [nonce |-> 1, dataRegionOffset |-> off]
  /\ vdo = [NoVDO EXCEPT !.live = TRUE]
  /\ cp = NoCP
  /\ heap = [NoHeap EXCEPT !.vdoAllocs = 1]
  /\ calls = 1
  /\ trail = <<>>
  /\ OthersIdle

NextLayout ==
  \/ configureVDO
  \/ clearBlockMap
  \/ clearJournal
  \/ clearPartition_write
  \/ clearPartition_free
  \/ clearPartition_return
  \/ saveVDOComponents
  \/ write_volume_geometry

SpecLayout == InitLayout /\ [][NextLayout]_vars

(***************************************************************************)
(* Properties of formatVDOWithNonce.                                       *)
(***************************************************************************)
\* the steps of the running call that returned VDO_SUCCESS
StepsOk == {trail[i].step : i \in {j \in DOMAIN trail :
                                     trail[j].result = VDO_SUCCESS}}

\* the step whose error the running call returned
FailedStep == IF trail = <<>> THEN "none" ELSE trail[Len(trail)].step

FormatReturned == pc = "done" /\ op = "formatVDO"
FormatFailed == FormatReturned /\ result # VDO_SUCCESS

PreClearSteps == {"register_status_codes", "validateVDOConfig",
                  "initialize_volume_geometry"}
MakeAndWriteSteps == {"makeVDO", "configureVDO", "clearBlockMap",
                      "clearJournal", "saveVDOComponents"}

GeometryWrites == {i \in DOMAIN writes : writes[i].kind = "geometry"}

\* C1: the geometry block is written (one block, at PBN 0) only by format,
\* only after status-code registration, config validation, geometry
\* initialisation, clear_geometry, makeVDO, configureVDO, both partition
\* clears and the super-block save have all returned success; no write
\* follows it, so it is issued at most once.
C1_GeometryWrittenLast ==
  \A i \in GeometryWrites :
    /\ op = "formatVDO"
    /\ i = Len(writes)
    /\ writes[i].pbn = 0
    /\ writes[i].count = 1
    /\ (PreClearSteps \cup {"clear_volume_geometry"} \cup MakeAndWriteSteps)
         \subseteq StepsOk

C1_Witness ==
  /\ FormatReturned
  /\ result = VDO_SUCCESS
  /\ GeometryWrites # {}

\* C2 as stated: whenever format fails before the geometry is written,
\* load_geometry returns BAD_MAGIC, whatever the device held before and
\* whatever step failed.
C2_Original ==
  (FormatFailed /\ GeometryWrites = {})
    => load_volume_geometry(dev) = VDO_BAD_MAGIC

\* C2 amended: when format fails inside makeAndWriteVDO (after
\* clear_geometry succeeded, before the geometry is written) load_geometry
\* returns BAD_MAGIC whatever the device held before; when it fails before
\* clear_geometry is called, load_geometry returns what it returned before
\* the call.
C2_FailedFormatNotLoadable ==
  FormatFailed =>
    /\ FailedStep \in MakeAndWriteSteps
         => load_volume_geometry(dev) = VDO_BAD_MAGIC
    /\ FailedStep \in PreClearSteps
         => load_volume_geometry(dev) = load_volume_geometry(devAtCall)

C2_Witness ==
  /\ FormatFailed
  /\ FailedStep \in MakeAndWriteSteps
  /\ load_volume_geometry(devAtCall) = VDO_SUCCESS

\* C3: when the super-block write of format fails with IO_ERROR, format
\* returns that error, the geometry is never written, PBN 0 holds a zero
\* block and load_geometry returns BAD_MAGIC.
C3_TornFormat ==
  \A i \in DOMAIN trail :
    (op = "formatVDO" /\ trail[i].step = "saveVDOComponents"
       /\ trail[i].result = VDO_IO_ERROR)
      => /\ pc = "done"
         /\ result = VDO_IO_ERROR
         /\ GeometryWrites = {}
         /\ dev[0] = ZeroBlock
         /\ load_volume_geometry(dev) = VDO_BAD_MAGIC

C3_Witness ==
  /\ FormatFailed
  /\ FailedStep = "saveVDOComponents"
  /\ result = VDO_IO_ERROR
  /\ devAtCall[0].kind = "geometry"

\* C4: until clear_geometry is called format issues no write, and when
\* format fails at status-code registration, config validation or
\* geometry initialisation every block of the device is as it was before
\* the call.
C4_UntouchedBeforeClear ==
  /\ (op = "formatVDO" /\ "clear_volume_geometry" \notin
        {trail[i].step : i \in DOMAIN trail})
       => (writes = <<>> /\ dev = devAtCall)
  /\ (FormatFailed /\ FailedStep \in PreClearSteps)
       => (writes = <<>> /\ dev = devAtCall)

C4_Witness ==
  /\ FormatFailed
  /\ FailedStep = "validateVDOConfig"
  /\ dev[0].kind = "geometry"

\* C5 as stated: when format fails at clear_geometry, at the final
\* geometry write or at any step between them, PBN 0 holds a zero block.
C5_Original ==
  (FormatFailed /\ FailedStep \notin PreClearSteps) => dev[0] = ZeroBlock

\* C5 amended: when format fails at a step after clear_geometry succeeded
\* and before the geometry write is issued (makeVDO, configureVDO, a
\* partition clear, the super-block save), the first write of the call
\* was the successful zeroing of PBN 0 and PBN 0 still holds a zero block
\* when format returns.
C5_ZeroedBetweenClearAndCommit ==
  (FormatFailed /\ FailedStep \in MakeAndWriteSteps)
    => /\ writes # <<>>
       /\ writes[1] = WriteRecord(0, 1, ZeroBlock, VDO_SUCCESS)
       /\ dev[0] = ZeroBlock

C5_Witness ==
  /\ FormatFailed
  /\ FailedStep = "clearJournal"
  /\ devAtCall[0] # ZeroBlock

Within(w, partition) ==
  /\ partition.offset <= w.pbn
  /\ w.pbn + w.count <= partition.offset + partition.size

\* C6: the writes of a successful format are, in this order: the zero
\* block at PBN 0, the zero chunks of the block-map partition, the zero
\* chunks of the recovery-journal partition, the super block at the data
\* region offset, the geometry at PBN 0; and at any moment a write to
\* another block than PBN 0 comes after the successful zeroing of PBN 0.
C6_WriteOrder ==
  /\ (FormatReturned /\ result = VDO_SUCCESS) =>
       LET layout == makeVDOLayoutFromConfig(
                       args.config, geometry.dataRegionOffset + 1).layout
           n == Len(writes)
       IN /\ n >= 5
          /\ \A i \in 1..n : writes[i].result = VDO_SUCCESS
          /\ writes[1] = WriteRecord(0, 1, ZeroBlock, VDO_SUCCESS)
          /\ writes[n] = WriteRecord(0, 1, GeometryBlock(geometry),
                                     VDO_SUCCESS)
          /\ writes[n - 1].kind = "super"
          /\ writes[n - 1].pbn = geometry.dataRegionOffset
          /\ writes[n - 1].count = 1
          /\ \E k \in 2..(n - 3) :
               /\ \A i \in 2..k :
                    /\ writes[i].kind = "zero"
                    /\ Within(writes[i], layout[BLOCK_MAP_PARTITION])
               /\ \A i \in (k + 1)..(n - 2) :
                    /\ writes[i].kind = "zero"
                    /\ Within(writes[i], layout[RECOVERY_JOURNAL_PARTITION])
  /\ op = "formatVDO" =>
       \A i \in DOMAIN writes :
         writes[i].pbn # 0 =>
           (i > 1 /\ writes[1] = WriteRecord(0, 1, ZeroBlock, VDO_SUCCESS))

C6_Witness ==
  /\ FormatReturned
  /\ result = VDO_SUCCESS
  /\ Len(writes) > 5

(***************************************************************************)
(* Properties of clearPartition.                                           *)
(***************************************************************************)
RECURSIVE SumCounts(_)
SumCounts(ws) == IF ws = <<>> THEN 0 ELSE Head(ws).count + SumCounts(Tail(ws))

Disjoint(w1, w2) ==
  w1.pbn + w1.count <= w2.pbn \/ w2.pbn + w2.count <= w1.pbn

\* C7: every write of clearPartition is a non-empty extent of zero blocks
\* inside [offset, offset + size), no two of its writes share a block,
\* and when clearPartition returns success the extents add up to the size
\* of the partition: every block of it was written exactly once, none
\* outside it.
C7_ClearCoversPartition ==
  /\ \A i \in DOMAIN writes :
       /\ writes[i].kind = "zero"
       /\ writes[i].count >= 1
       /\ Within(writes[i], [offset |-> cp.start, size |-> cp.size])
  /\ \A i, j \in DOMAIN writes : i < j => Disjoint(writes[i], writes[j])
  /\ (pc = "done" /\ result = VDO_SUCCESS) => SumCounts(writes) = cp.size

C7_Witness ==
  /\ pc = "done"
  /\ result = VDO_SUCCESS
  /\ cp.size > MaxBufferBlocks
  /\ cp.start > 0
  /\ Len(writes) >= 3

RECURSIVE PowersOfTwo(_, _)
\* the powers of two from p up to cap
PowersOfTwo(p, cap) ==
  IF p > cap THEN {} ELSE {p} \cup PowersOfTwo(2 * p, cap)

\* the largest power of two that divides size, capped at cap
LargestPow2Divisor(size, cap) ==
  LET ds == {p \in PowersOfTwo(1, cap) : size % p = 0}
  IN CHOOSE p \in ds : \A q \in ds : q <= p

\* C8: bufferBlocks is the largest power of two that divides the
\* partition size, capped at 4096; it divides the partition size; every
\* write is of bufferBlocks blocks; and the zero buffer, while allocated,
\* is of bufferBlocks * 4096 bytes.
C8_ChunkSize ==
  cp.id # "none" =>
    /\ cp.bufferBlocks = LargestPow2Divisor(cp.size, 4096)
    /\ cp.size % cp.bufferBlocks = 0
    /\ \A i \in DOMAIN writes : writes[i].count = cp.bufferBlocks
    /\ cp.zeroBuffer # 0 => cp.zeroBuffer = cp.bufferBlocks * 4096

C8_Witness ==
  /\ cp.size > 4096
  /\ cp.size % 8192 = 0
  /\ cp.bufferBlocks = 4096
  /\ cp.zeroBuffer = 4096 * 4096
  /\ Len(writes) >= 2

\* the blocks of write w
Extent(w) == w.pbn..(w.pbn + w.count - 1)

\* C9: when a chunk write of clearPartition fails during format, it is
\* the last write of the call (no further chunk, no super block, no
\* geometry), clearPartition and then format return its error code, and
\* the blocks of the chunks written before it still hold zeros.
C9_ChunkWriteFailureAborts ==
  op = "formatVDO" =>
    \A i \in DOMAIN writes :
      (i >= 2 /\ writes[i].kind = "zero" /\ writes[i].result # VDO_SUCCESS)
        => /\ i = Len(writes)
           /\ \A k \in DOMAIN writes : writes[k].kind = "zero"
           /\ cp.result = writes[i].result
           /\ pc \in {"clearPartition_write", "clearPartition_return", "done"}
           /\ pc = "done" => result = writes[i].result
           /\ \A j \in 2..(i - 1) : \A b \in Extent(writes[j]) :
                dev[b] = ZeroBlock

C9_Witness ==
  /\ FormatFailed
  /\ FailedStep = "clearJournal"
  /\ result = VDO_IO_ERROR
  /\ Len(writes) >= 4
  /\ writes[Len(writes)].result = VDO_IO_ERROR
  /\ writes[Len(writes) - 1].pbn + 1 = writes[Len(writes)].pbn
  /\ dev[writes[Len(writes) - 1].pbn] = ZeroBlock
  /\ dev[writes[Len(writes)].pbn] # ZeroBlock

\* C10: nothing is freed that is not allocated; the zero buffer is
\* allocated exactly while clearPartition is between its allocation and
\* its FREE, and is released when clearPartition returns (nothing is
\* freed when the allocation failed); the VDO made by makeVDO is released
\* when the call returns; and on return every allocation of the call has
\* been freed exactly once.
C10_ResourcesReleased ==
  /\ heap.badFrees = 0
  /\ heap.vdoAllocs = heap.vdoFrees + (IF vdo.live THEN 1 ELSE 0)
  /\ heap.bufAllocs = heap.bufFrees + (IF cp.zeroBuffer # 0 THEN 1 ELSE 0)
  /\ pc \in {"clearPartition_return", "done"} => cp.zeroBuffer = 0
  /\ pc = "done" => ~vdo.live

C10_Witness ==
  /\ FormatFailed
  /\ FailedStep = "clearJournal"
  /\ result = VDO_IO_ERROR
  /\ heap.vdoAllocs = 1
  /\ heap.vdoFrees = 1
  /\ heap.bufAllocs = 2
  /\ heap.bufFrees = 2

(***************************************************************************)
(* Properties of updateVDOSuperBlockState.                                 *)
(***************************************************************************)
Reconfiguring == op \in {"forceVDORebuild", "setVDOReadOnlyMode"}

\* the geometry and the super block of device content d load and decode
Loadable(d) == prepareSuperBlock(d) = VDO_SUCCESS

\* where the super block of a loadable device is, and what it decodes to
SuperBlockPBN(d) == d[0].body.dataRegionOffset
Persisted(d) == d[SuperBlockPBN(d)].body

\* the results of a call whose memory allocation or device read or write
\* failed
LayerFailures == {VDO_OUT_OF_MEMORY, VDO_IO_ERROR}

\* C11: force_rebuild on a volume whose persisted state is not
\* READ_ONLY_MODE writes nothing and changes no block; once the super
\* block has been loaded it returns NOT_READ_ONLY (before that it can only
\* fail for want of memory or on a read error).
C11_ForceRebuildRefused ==
  (op = "forceVDORebuild" /\ Loadable(devAtCall)
     /\ Persisted(devAtCall).state # VDO_READ_ONLY_MODE)
    => /\ writes = <<>>
       /\ dev = devAtCall
       /\ pc = "done" =>
            /\ result \in {VDO_NOT_READ_ONLY} \cup LayerFailures
            /\ "prepareSuperBlock" \in StepsOk => result = VDO_NOT_READ_ONLY

C11_Witness ==
  /\ pc = "done"
  /\ op = "forceVDORebuild"
  /\ result = VDO_NOT_READ_ONLY
  /\ Persisted(devAtCall).state = VDO_NEW
  /\ Persisted(devAtCall).nonce >= 1

ReconfigureReturned == pc = "done" /\ Reconfiguring

\* C12: on a freshly formatted volume (state NEW) set_read_only succeeds
\* and leaves READ_ONLY_MODE persisted; force_rebuild on a volume whose
\* persisted state is READ_ONLY_MODE succeeds and leaves FORCE_REBUILD
\* persisted (each unless an allocation, a read or a write fails); and
\* whenever a reconfigure call has changed the device to one whose super
\* block loads with FORCE_REBUILD, the call is force_rebuild and the state
\* persisted when it was made was READ_ONLY_MODE.
C12_ForceRebuildAfterReadOnly ==
  /\ (ReconfigureReturned /\ op = "setVDOReadOnlyMode"
        /\ Loadable(devAtCall) /\ Persisted(devAtCall).state = VDO_NEW)
       => /\ result \in {VDO_SUCCESS} \cup LayerFailures
          /\ result = VDO_SUCCESS =>
               (Loadable(dev) /\ Persisted(dev).state = VDO_READ_ONLY_MODE)
  /\ (ReconfigureReturned /\ op = "forceVDORebuild"
        /\ Loadable(devAtCall)
        /\ Persisted(devAtCall).state = VDO_READ_ONLY_MODE)
       => /\ result \in {VDO_SUCCESS} \cup LayerFailures
          /\ result = VDO_SUCCESS =>
               (Loadable(dev) /\ Persisted(dev).state = VDO_FORCE_REBUILD)
  /\ (Reconfiguring /\ dev # devAtCall /\ Loadable(dev)
        /\ Persisted(dev).state = VDO_FORCE_REBUILD)
       => /\ op = "forceVDORebuild"
          /\ Loadable(devAtCall)
          /\ Persisted(devAtCall).state = VDO_READ_ONLY_MODE

C12_Witness ==
  /\ ReconfigureReturned
  /\ op = "forceVDORebuild"
  /\ result = VDO_SUCCESS
  /\ calls = 3
  /\ Persisted(dev).state = VDO_FORCE_REBUILD
  /\ Persisted(dev).nonce >= 1
  /\ Persisted(devAtCall).state = VDO_READ_ONLY_MODE
  /\ dev[0].body.nonce = Persisted(dev).nonce

\* C13: a reconfigure call issues at most one write; that write is of one
\* block, the super block, at the data region offset of the geometry
\* that was on the device when the call was made (never PBN 0); and no
\* other block of the device (PBN 0, the index region, the partitions)
\* differs from what it held at the call.
C13_ReconfigureWritesOneBlock ==
  Reconfiguring =>
    /\ Len(writes) <= 1
    /\ \A i \in DOMAIN writes :
         /\ Loadable(devAtCall)
         /\ writes[i].kind = "super"
         /\ writes[i].count = 1
         /\ writes[i].pbn = SuperBlockPBN(devAtCall)
         /\ writes[i].pbn # 0
    /\ dev[0] = devAtCall[0]
    /\ \A b \in DOMAIN dev :
         dev[b] # devAtCall[b]
           => (Loadable(devAtCall) /\ b = SuperBlockPBN(devAtCall))

C13_Witness ==
  /\ ReconfigureReturned
  /\ result = VDO_SUCCESS
  /\ Len(writes) = 1
  /\ writes[1].pbn = 2
  /\ dev[2] # devAtCall[2]
  /\ dev[2].kind = "super"

C16_SetReadOnlyUnconditional ==
  (op = "setVDOReadOnlyMode" /\ Loadable(devAtCall))
    => /\ \A i \in DOMAIN trail : trail[i].result # VDO_NOT_READ_ONLY
       /\ pc = "done" =>
            /\ result \in {VDO_SUCCESS} \cup LayerFailures
            /\ "prepareSuperBlock" \in StepsOk => Len(writes) = 1
            /\ result = VDO_SUCCESS =>
                 /\ Loadable(dev)
                 /\ Persisted(dev).state = VDO_READ_ONLY_MODE

C16_Witness ==
  /\ ReconfigureReturned
  /\ op = "setVDOReadOnlyMode"
  /\ result = VDO_SUCCESS
  /\ Persisted(devAtCall).state = VDO_FORCE_REBUILD
  /\ Persisted(dev).state = VDO_READ_ONLY_MODE

(***************************************************************************)
(* Properties of the VDO that format makes.                                *)
(***************************************************************************)
\* C17: after a successful format the geometry loads, the super block at
\* its data region offset loads, and it decodes to state NEW,
\* complete_recoveries 0, the nonce of the geometry (the nonce format was
\* given), the config format was given (with the logical blocks that
\* configureVDO has set) and a slab count of at least 1, whatever the
\* device held before.
C17_FormattedVolumeLoads ==
  (FormatReturned /\ result = VDO_SUCCESS)
    => /\ load_volume_geometry(dev) = VDO_SUCCESS
       /\ load_super_block(dev, SuperBlockPBN(dev)) = VDO_SUCCESS
       /\ Persisted(dev).state = VDO_NEW
       /\ Persisted(dev).completeRecoveries = 0
       /\ Persisted(dev).nonce = dev[0].body.nonce
       /\ Persisted(dev).nonce = args.nonce
       /\ Persisted(dev).config
            = [args.config EXCEPT
                 !.logicalBlocks = Persisted(dev).config.logicalBlocks]
       /\ Persisted(dev).slabCount >= 1

\* a volume in use that had an index region is formatted again, without
\* one
C17_Witness ==
  /\ FormatReturned
  /\ result = VDO_SUCCESS
  /\ Loadable(devAtCall)
  /\ Persisted(devAtCall).completeRecoveries = 2
  /\ Persisted(devAtCall).state = VDO_DIRTY
  /\ SuperBlockPBN(devAtCall) = 2
  /\ SuperBlockPBN(dev) = 1
  /\ Persisted(dev).state = VDO_NEW
  /\ Persisted(dev).slabCount >= 2
  /\ Persisted(dev).config.logicalBlocks = 1

(***************************************************************************)
(* Properties of the layout.                                               *)
(***************************************************************************)
\* the arguments configureVDO builds the layout from
LayoutStart == geometry.dataRegionOffset + 1
LayoutMade == makeVDOLayoutFromConfig(args.config, LayoutStart)

End(partition) == partition.offset + partition.size

\* the blocks between the block map and the recovery journal
SpaceForAllocator ==
  args.config.physicalBlocks - LayoutStart - RootCount
    - args.config.recoveryJournalSize - SlabSummaryBlocks

ZeroSlabsConfigured ==
  /\ op = "formatVDO"
  /\ "configureVDO" \in {trail[i].step : i \in DOMAIN trail}
  /\ SpaceForAllocator < args.config.slabSize

Blocks(p) == p.offset..(End(p) - 1)

\* C21: the layout of a configured VDO starts one block past the data
\* region offset, so the super block PBN (the data region offset) and PBN
\* 0 are in none of the four partitions and below the offset of the block
\* map partition; no zero chunk of a partition clear covers the super
\* block PBN or PBN 0, and the super block is written at the data region
\* offset.
C21_SuperBlockOutsideLayout ==
  /\ vdo.layout # NoLayout =>
       /\ vdo.layout[BLOCK_MAP_PARTITION].offset
            = geometry.dataRegionOffset + 1
       /\ \A p \in DOMAIN vdo.layout :
            /\ geometry.dataRegionOffset < vdo.layout[p].offset
            /\ geometry.dataRegionOffset \notin Blocks(vdo.layout[p])
            /\ 0 \notin Blocks(vdo.layout[p])
  /\ \A i \in DOMAIN writes :
       /\ writes[i].kind = "zero" =>
            /\ 0 \notin Extent(writes[i])
            /\ geometry.dataRegionOffset \notin Extent(writes[i])
       /\ writes[i].kind = "super" =>
            writes[i].pbn = geometry.dataRegionOffset

C21_Witness ==
  /\ pc = "write_volume_geometry"
  /\ geometry.dataRegionOffset = 2
  /\ Len(writes) >= 4
  /\ writes[1].kind = "zero"
  /\ writes[1].pbn = 3
  /\ writes[Len(writes)].kind = "super"
  /\ writes[Len(writes)].result = VDO_SUCCESS

(***************************************************************************)
(* Properties of the slab configuration and of the block map sizing.       *)
(***************************************************************************)
\* configureVDO has returned VDO_SUCCESS in the running format
Configured ==
  /\ op = "formatVDO"
  /\ \E i \in DOMAIN trail :
       trail[i] = [step |-> "configureVDO", result |-> VDO_SUCCESS]

DepotDataBlocks == vdo.slabConfig.dataBlocks * vdo.slabCount

DerivedLogicalBlocks(d) ==
  (d - compute_forest_size(d, RootCount)) % BlockCountModulus

Traced(step) == \E i \in DOMAIN trail : trail[i].step = step
ResultOf(step) ==
  trail[CHOOSE i \in DOMAIN trail : trail[i].step = step].result

\* the block that a device with a geometry block names as its super block
SuperBlockOf(d) == d[SuperBlockPBN(d)]

\* the device held, when the call started, a super block whose version
\* field is not the one the code knows
VersionAltered ==
  /\ devAtCall[0].kind = "geometry"
  /\ SuperBlockOf(devAtCall).kind = "super"
  /\ SuperBlockOf(devAtCall).version # SuperBlockVersion

C25_FirstErrorPropagated ==
  /\ \A i \in DOMAIN trail :
       trail[i].result # VDO_SUCCESS =>
         /\ i = Len(trail)
         /\ pc = "done"
         /\ result = trail[i].result
  /\ \A i, j \in DOMAIN trail :
       trail[i].step = trail[j].step => i = j
  /\ \A i \in DOMAIN writes :
       writes[i].result # VDO_SUCCESS => i = Len(writes)
  /\ (pc = "done" /\ result # VDO_SUCCESS) =>
       /\ trail # <<>>
       /\ trail[Len(trail)].result = result
  /\ (pc = "done" /\ result = VDO_SUCCESS) =>
       \A i \in DOMAIN writes : writes[i].result = VDO_SUCCESS

\* the second chunk write of the journal clear fails in a format
C25_Witness ==
  /\ FormatFailed
  /\ FailedStep = "clearJournal"
  /\ result = VDO_IO_ERROR
  /\ Len(trail) = 8
  /\ Len(writes) >= 4
  /\ writes[Len(writes)].result = VDO_IO_ERROR
  /\ writes[Len(writes) - 1].result = VDO_SUCCESS
  /\ Within(writes[Len(writes) - 1],
            LayoutMade.layout[RECOVERY_JOURNAL_PARTITION])

LoadFails(d) ==
  \/ d[0].kind # "geometry"
  \/ SuperBlockOf(d).kind # "super"
  \/ SuperBlockOf(d).version # SuperBlockVersion
  \/ SuperBlockOf(d).checksum
       # Checksum(SuperBlockOf(d).release, SuperBlockOf(d).body)
  \/ SuperBlockOf(d).release # CurrentRelease

\* C29: when prepareSuperBlock fails in a reconfigure (the geometry or
\* the super block does not load, the version is not valid, a read
\* fails), it is the last step of the call: reconfigure returns its error
\* with the VDO freed, having issued no write, and the device is as it
\* was; and prepareSuperBlock fails on every device whose super block
\* does not load.
C29_LoadFailureWritesNothing ==
  (Reconfiguring /\ Traced("prepareSuperBlock")) =>
    /\ LoadFails(devAtCall) => ResultOf("prepareSuperBlock") # VDO_SUCCESS
    /\ ResultOf("prepareSuperBlock") # VDO_SUCCESS =>
         /\ pc = "done"
         /\ result = ResultOf("prepareSuperBlock")
         /\ FailedStep = "prepareSuperBlock"
         /\ Len(trail) = 2
         /\ writes = <<>>
         /\ dev = devAtCall
         /\ ~vdo.live
         /\ heap.vdoFrees = heap.vdoAllocs

\* the super block of a read-only volume fails its checksum
C29_Witness ==
  /\ ReconfigureReturned
  /\ op = "forceVDORebuild"
  /\ devAtCall[0].kind = "geometry"
  /\ SuperBlockOf(devAtCall).kind = "super"
  /\ SuperBlockOf(devAtCall).version = SuperBlockVersion
  /\ result = VDO_BAD_CHECKSUM
  /\ writes = <<>>

(***************************************************************************)
(* vdoSuspend.c: the suspend / save admin operation.  suspendCallback is   *)
(* the callback of the sub-task completion; every drain it starts, and the *)
(* super block save, finish that completion some time later, with a result *)
(* of their own.                                                           *)
(*                                                                         *)
(* SpecSuspend     : one performVDOSuspend on a VDO in any state.          *)
(* SpecSuspendFair : the same, where a scheduled callback runs and a       *)
(*                   started drain or save completes.                      *)
(***************************************************************************)
VDO_RECOVERING == "VDO_RECOVERING"
VDO_REBUILD_FOR_UPGRADE == "VDO_REBUILD_FOR_UPGRADE"
VDO_REPLAYING == "VDO_REPLAYING"

UDS_BAD_STATE == "UDS_BAD_STATE"

\* enum SuspendPhase: the phase numbered p is SuspendPhases[p + 1]
SuspendPhases ==
  <<"SUSPEND_PHASE_START", "SUSPEND_PHASE_PACKER",
    "SUSPEND_PHASE_LOGICAL_ZONES", "SUSPEND_PHASE_BLOCK_MAP",
    "SUSPEND_PHASE_JOURNAL", "SUSPEND_PHASE_DEPOT",
    "SUSPEND_PHASE_WRITE_SUPER_BLOCK", "SUSPEND_PHASE_END">>

PhaseName(phase) ==
  IF phase + 1 \in DOMAIN SuspendPhases
    THEN SuspendPhases[phase + 1]
    ELSE "no phase"

\* the threads of the thread configuration
ThreadConfig ==
  [admin |-> "admin thread", packer |-> "packer zone thread",
   journal |-> "journal zone thread"]

\* what a drain, the wait or the save may finish the sub-task with
SubTaskResults == {VDO_SUCCESS, "VDO_READ_ONLY", VDO_IO_ERROR}

\* the asynchronous operations suspendCallback starts
AsyncOperations ==
  {"waitUntilNotEnteringReadOnlyMode", "drainPacker", "drainLogicalZones",
   "drainBlockMap", "drainRecoveryJournal", "drainSlabDepot",
   "saveVDOComponentsAsync"}

getThreadIDForPhase(phase) ==
  CASE PhaseName(phase) = "SUSPEND_PHASE_PACKER" -> ThreadConfig.packer
    [] PhaseName(phase) = "SUSPEND_PHASE_JOURNAL" -> ThreadConfig.journal
    [] OTHER -> ThreadConfig.admin

\* setCompletionResult keeps the first error a completion was given
setCompletionResult(old, new) == IF old = VDO_SUCCESS THEN new ELSE old

resetCompletion(completion) == [completion EXCEPT !.result = VDO_SUCCESS]

\* resetSubTask, called with the phase the admin completion is in
resetSubTask_previousPhase(completion, phase) ==
  [resetCompletion(completion) EXCEPT
     !.callbackThreadID = getThreadIDForPhase(phase - 1)]

resetSubTask(completion, phase) ==
  [resetCompletion(completion) EXCEPT
     !.callbackThreadID = getThreadIDForPhase(phase)]

\* the switch of writeSuperBlock: whether the state is one it saves, and
\* the state it saves
writeSuperBlock_saves(state) ==
  state \in {VDO_DIRTY, VDO_NEW, VDO_CLEAN, VDO_READ_ONLY_MODE,
             VDO_FORCE_REBUILD, VDO_RECOVERING, VDO_REBUILD_FOR_UPGRADE}

writeSuperBlock_state_unchanged(state) == state

writeSuperBlock_state(state) ==
  IF state \in {VDO_DIRTY, VDO_NEW, VDO_CLEAN} THEN VDO_CLEAN ELSE state

\* startDraining accepts a drain of an admin state in normal operation
startDraining(adminState) == adminState = "ADMIN_STATE_NORMAL_OPERATION"

isSuspending(adminState) == adminState = "ADMIN_STATE_SUSPENDING"

\* the admin state a finished drain leaves
finishDrainingWithResult_state(adminState) ==
  IF adminState = "ADMIN_STATE_SUSPENDING"
    THEN "ADMIN_STATE_SUSPENDED"
    ELSE "ADMIN_STATE_SAVED"

\* adminCompletion->phase++
suspendCallback_nextPhase_skip(phase) == phase + 2

suspendCallback_nextPhase(phase) == phase + 1

\* the test of the WRITE_SUPER_BLOCK phase
suspendCallback_skipsSave_onlySuspend(adminState, adminResult) ==
  isSuspending(adminState)

suspendCallback_skipsSave(adminState, adminResult) ==
  isSuspending(adminState) \/ adminResult # VDO_SUCCESS

\* the switch of suspendCallback: what the callback does in a phase
suspendCallback_switch_alwaysClose(phase, draining, closeRequired, skipsSave) ==
  CASE PhaseName(phase) = "SUSPEND_PHASE_START" ->
         IF ~draining THEN "return" ELSE "waitUntilNotEnteringReadOnlyMode"
    [] PhaseName(phase) = "SUSPEND_PHASE_PACKER" -> "drainPacker"
    [] PhaseName(phase) = "SUSPEND_PHASE_LOGICAL_ZONES" -> "drainLogicalZones"
    [] PhaseName(phase) = "SUSPEND_PHASE_BLOCK_MAP" -> "drainBlockMap"
    [] PhaseName(phase) = "SUSPEND_PHASE_JOURNAL" -> "drainRecoveryJournal"
    [] PhaseName(phase) = "SUSPEND_PHASE_DEPOT" -> "drainSlabDepot"
    [] PhaseName(phase) = "SUSPEND_PHASE_WRITE_SUPER_BLOCK" ->
         IF skipsSave THEN "break" ELSE "writeSuperBlock"
    [] PhaseName(phase) = "SUSPEND_PHASE_END" -> "break"
    [] OTHER -> "setCompletionResult"

suspendCallback_switch_endReturns(phase, draining, closeRequired, skipsSave) ==
  CASE PhaseName(phase) = "SUSPEND_PHASE_START" ->
         IF ~draining THEN "return"
         ELSE IF ~closeRequired THEN "break"
         ELSE "waitUntilNotEnteringReadOnlyMode"
    [] PhaseName(phase) = "SUSPEND_PHASE_PACKER" -> "drainPacker"
    [] PhaseName(phase) = "SUSPEND_PHASE_LOGICAL_ZONES" -> "drainLogicalZones"
    [] PhaseName(phase) = "SUSPEND_PHASE_BLOCK_MAP" -> "drainBlockMap"
    [] PhaseName(phase) = "SUSPEND_PHASE_JOURNAL" -> "drainRecoveryJournal"
    [] PhaseName(phase) = "SUSPEND_PHASE_DEPOT" -> "drainSlabDepot"
    [] PhaseName(phase) = "SUSPEND_PHASE_WRITE_SUPER_BLOCK" ->
         IF skipsSave THEN "break" ELSE "writeSuperBlock"
    [] PhaseName(phase) = "SUSPEND_PHASE_END" -> "return"
    [] OTHER -> "setCompletionResult"

suspendCallback_switch(phase, draining, closeRequired, skipsSave) ==
  CASE PhaseName(phase) = "SUSPEND_PHASE_START" ->
         IF ~draining THEN "return"
         ELSE IF ~closeRequired THEN "break"
         ELSE "waitUntilNotEnteringReadOnlyMode"
    [] PhaseName(phase) = "SUSPEND_PHASE_PACKER" -> "drainPacker"
    [] PhaseName(phase) = "SUSPEND_PHASE_LOGICAL_ZONES" -> "drainLogicalZones"
    [] PhaseName(phase) = "SUSPEND_PHASE_BLOCK_MAP" -> "drainBlockMap"
    [] PhaseName(phase) = "SUSPEND_PHASE_JOURNAL" -> "drainRecoveryJournal"
    [] PhaseName(phase) = "SUSPEND_PHASE_DEPOT" -> "drainSlabDepot"
    [] PhaseName(phase) = "SUSPEND_PHASE_WRITE_SUPER_BLOCK" ->
         IF skipsSave THEN "break" ELSE "writeSuperBlock"
    [] PhaseName(phase) = "SUSPEND_PHASE_END" -> "break"
    [] OTHER -> "setCompletionResult"

\* an entry of adminLog
AdminEvent(event, phase, thread, what, res) ==
  [event |-> event, phase |-> phase, thread |-> thread, what |-> what,
   result |-> res]

\* performVDOSuspend: performAdminOperation readies the admin completion
\* and its sub-task and schedules suspendCallback on the admin thread
performVDOSuspend ==
  /\ adminCompletion.type = "none"
  /\ \E save \in BOOLEAN :
       adminCompletion' =
         [type |-> IF save THEN "ADMIN_OPERATION_SAVE"
                           ELSE "ADMIN_OPERATION_SUSPEND",
          phase |-> 0,
          result |-> VDO_SUCCESS,
          finished |-> FALSE]
  /\ subTask' = [result |-> VDO_SUCCESS, callbackThreadID |-> ThreadConfig.admin,
                 pending |-> "suspendCallback"]
  /\ UNCHANGED <<kernelVDO, superBlockSaves, adminLog>>
  /\ UNCHANGED <<formatVars, parse, logger, descriptors, logThreads, alloc>>

\* one invocation of suspendCallback, on the thread the sub-task was
\* scheduled on
suspendCallback ==
  /\ subTask.pending = "suspendCallback"
  /\ LET phase == adminCompletion.phase
         type == adminCompletion.type
         thread == subTask.callbackThreadID
         draining == startDraining(kernelVDO.adminState)
         adminState == IF PhaseName(phase) = "SUSPEND_PHASE_START" /\ draining
                         THEN (IF type = "ADMIN_OPERATION_SUSPEND"
                                 THEN "ADMIN_STATE_SUSPENDING"
                                 ELSE "ADMIN_STATE_SAVING")
                         ELSE kernelVDO.adminState
         next == suspendCallback_nextPhase(phase)
         todo == suspendCallback_switch(
                   phase, draining, kernelVDO.closeRequired,
                   suspendCallback_skipsSave(adminState,
                                             adminCompletion.result))
         called == <<AdminEvent("suspendCallback", phase, thread, todo,
                                subTask.result)>>
                   \o IF PhaseName(phase) = "SUSPEND_PHASE_START"
                        THEN <<AdminEvent("startDraining", phase, thread,
                                          IF draining THEN "accepted"
                                                      ELSE "refused",
                                          VDO_SUCCESS)>>
                        ELSE <<>>
         reset == resetSubTask(subTask, next)
     IN CASE todo = "return" ->
               \* startDraining has refused, and finished its waiter
               /\ adminCompletion' =
                    [adminCompletion EXCEPT
                       !.phase = next,
                       !.result = IF PhaseName(phase) = "SUSPEND_PHASE_START"
                                    THEN "VDO_INVALID_ADMIN_STATE"
                                    ELSE @,
                       !.finished = (PhaseName(phase) = "SUSPEND_PHASE_START")]
               /\ subTask' = [subTask EXCEPT !.pending = "none"]
               /\ adminLog' = adminLog \o called
               /\ UNCHANGED <<kernelVDO, superBlockSaves>>
          [] todo \in {"break", "setCompletionResult"} ->
               LET res == IF todo = "break"
                            THEN subTask.result
                            ELSE setCompletionResult(subTask.result,
                                                     UDS_BAD_STATE)
               IN /\ adminCompletion' =
                       [adminCompletion EXCEPT
                          !.phase = next,
                          !.result = setCompletionResult(@, res),
                          !.finished = TRUE]
                  /\ subTask' = [subTask EXCEPT !.result = res,
                                                !.pending = "none"]
                  /\ kernelVDO' =
                       [kernelVDO EXCEPT
                          !.adminState =
                             finishDrainingWithResult_state(adminState)]
                  /\ adminLog' =
                       adminLog \o called \o
                         <<AdminEvent("finishDrainingWithResult", phase,
                                      thread, "finish", res)>>
                  /\ UNCHANGED superBlockSaves
          [] todo = "writeSuperBlock" ->
               IF writeSuperBlock_saves(kernelVDO.state)
                 THEN /\ kernelVDO' =
                           [kernelVDO EXCEPT
                              !.state = writeSuperBlock_state(@)]
                      /\ superBlockSaves' =
                           Append(superBlockSaves,
                                  writeSuperBlock_state(kernelVDO.state))
                      /\ subTask' =
                           [reset EXCEPT
                              !.pending = "saveVDOComponentsAsync"]
                      /\ adminCompletion' =
                           [adminCompletion EXCEPT !.phase = next]
                      /\ adminLog' =
                           adminLog \o called \o
                             <<AdminEvent("start", phase, thread,
                                          "saveVDOComponentsAsync",
                                          VDO_SUCCESS)>>
                 ELSE \* finishCompletion(completion, UDS_BAD_STATE) runs
                      \* the error handler, preserveErrorAndContinue
                      /\ adminCompletion' =
                           [adminCompletion EXCEPT
                              !.phase = next,
                              !.result =
                                 setCompletionResult(@, UDS_BAD_STATE)]
                      /\ subTask' =
                           [resetCompletion(reset) EXCEPT
                              !.pending = "suspendCallback"]
                      /\ adminLog' =
                           adminLog \o called \o
                             <<AdminEvent("finishCompletion", phase,
                                          thread, "writeSuperBlock",
                                          UDS_BAD_STATE)>>
                      /\ UNCHANGED <<kernelVDO, superBlockSaves>>
          [] OTHER ->
               /\ adminCompletion' = [adminCompletion EXCEPT !.phase = next]
               /\ subTask' = [reset EXCEPT !.pending = todo]
               /\ kernelVDO' = [kernelVDO EXCEPT !.adminState = adminState]
               /\ adminLog' =
                    adminLog \o called \o
                      <<AdminEvent("start", phase, thread, todo,
                                   VDO_SUCCESS)>>
               /\ UNCHANGED superBlockSaves
  /\ UNCHANGED <<formatVars, parse, logger, descriptors, logThreads, alloc>>

\* a drain, the wait or the save finishes the sub-task completion: with
\* success its callback is scheduled, with an error its error handler,
\* preserveErrorAndContinue, records the error in the admin completion,
\* resets the sub-task and schedules the callback
finishCompletion ==
  /\ subTask.pending \in AsyncOperations
  /\ \E res \in SubTaskResults :
       /\ adminCompletion' =
            [adminCompletion EXCEPT !.result = setCompletionResult(@, res)]
       /\ subTask' =
            [(IF res = VDO_SUCCESS
                THEN [subTask EXCEPT !.result = res]
                ELSE resetCompletion(subTask))
               EXCEPT !.pending = "suspendCallback"]
       /\ adminLog' =
            Append(adminLog,
                   AdminEvent("finishCompletion", adminCompletion.phase,
                              subTask.callbackThreadID, subTask.pending,
                              res))
  /\ UNCHANGED <<kernelVDO, superBlockSaves>>
  /\ UNCHANGED <<formatVars, parse, logger, descriptors, logThreads, alloc>>

InitSuspend ==
  /\ FormatIdle
  /\ ParseIdle
  /\ LogIdle
  /\ alloc = [called |-> FALSE]
  /\ adminCompletion = [type |-> "none", phase |-> 0, result |-> VDO_SUCCESS,
                        finished |-> FALSE]
  /\ subTask = [result |-> VDO_SUCCESS, callbackThreadID |-> "none",
                pending |-> "none"]
  /\ \E state \in VDOStates \cup {"unknown VDO state"}, closeRequired \in BOOLEAN,
        adminState \in {"ADMIN_STATE_NORMAL_OPERATION",
                        "ADMIN_STATE_SUSPENDED"} :
       kernelVDO = [state |-> state, closeRequired |-> closeRequired,
                    adminState |-> adminState]
  /\ superBlockSaves = <<>>
  /\ adminLog = <<>>

NextSuspend ==
  \/ performVDOSuspend
  \/ suspendCallback
  \/ finishCompletion

SpecSuspend == InitSuspend /\ [][NextSuspend]_vars

SpecSuspendFair ==
  /\ InitSuspend
  /\ [][NextSuspend]_vars
  /\ WF_vars(suspendCallback)
  /\ WF_vars(finishCompletion)

(***************************************************************************)
(* Claims about the suspend operation.                                     *)
(***************************************************************************)
Range(seq) == {seq[i] : i \in DOMAIN seq}

\* the entries of adminLog of one kind, in order
LogOf(event) == SelectSeq(adminLog, LAMBDA e : e.event = event)

\* the errors the operation was given, in order
LoggedErrors == SelectSeq(adminLog, LAMBDA e : e.result # VDO_SUCCESS)

\* the asynchronous operations in the order of their phases
DrainOrder ==
  <<"waitUntilNotEnteringReadOnlyMode", "drainPacker", "drainLogicalZones",
    "drainBlockMap", "drainRecoveryJournal", "drainSlabDepot",
    "saveVDOComponentsAsync">>

\* startDraining has accepted, or refused, the operation
DrainAccepted ==
  \E e \in Range(LogOf("startDraining")) : e.what = "accepted"
DrainRefused ==
  \E e \in Range(LogOf("startDraining")) : e.what = "refused"

\* a drain (or the wait before the drains) has finished with an error
DrainFailed ==
  \E e \in Range(LogOf("finishCompletion")) :
     /\ e.result # VDO_SUCCESS
     /\ e.what \in AsyncOperations \ {"saveVDOComponentsAsync"}

\* C31: suspendCallback runs the phases in the order of the enumeration:
\* its i-th invocation runs phase i - 1 and leaves the admin completion in
\* phase i, no invocation follows the one of SUSPEND_PHASE_END, and the
\* wait, the five drains and the save are started in the order of their
\* phases, each after every one started before it has finished.
C31_PhasesInOrder ==
  LET called == LogOf("suspendCallback")
      started == LogOf("start")
  IN /\ adminCompletion.phase = Len(called)
     /\ Len(called) <= Len(SuspendPhases)
     /\ \A i \in DOMAIN called : PhaseName(called[i].phase) = SuspendPhases[i]
     /\ \A i \in DOMAIN started :
          /\ started[i].what = DrainOrder[i]
          /\ started[i].phase = i - 1
     /\ \A k \in DOMAIN adminLog :
          adminLog[k].event = "start" =>
            \A j \in 1..(k - 1) :
               adminLog[j].event = "start" =>
                 \E m \in (j + 1)..(k - 1) :
                    /\ adminLog[m].event = "finishCompletion"
                    /\ adminLog[m].what = adminLog[j].what

\* a save has run all eight phases, the save of the super block having
\* failed
C31_Witness ==
  /\ adminCompletion.finished
  /\ adminCompletion.type = "ADMIN_OPERATION_SAVE"
  /\ Len(LogOf("suspendCallback")) = 8
  /\ PhaseName(LogOf("suspendCallback")[8].phase) = "SUSPEND_PHASE_END"
  /\ LoggedErrors # <<>>
  /\ LoggedErrors[1].what = "saveVDOComponentsAsync"

\* C32: the save of the super block is started only by a save operation
\* that has been given no error before, and the super block is written
\* only by that save; once a drain has failed, the operation still starts
\* every later drain, writes no super block, and finishes with the first
\* error it was given.
C32_SaveOnlyWithoutError ==
  /\ \A k \in DOMAIN adminLog :
       (adminLog[k].event = "start"
          /\ adminLog[k].what = "saveVDOComponentsAsync") =>
         /\ adminCompletion.type = "ADMIN_OPERATION_SAVE"
         /\ \A j \in 1..(k - 1) : adminLog[j].result = VDO_SUCCESS
  /\ Len(superBlockSaves)
       = Cardinality({k \in DOMAIN adminLog :
                         adminLog[k].what = "saveVDOComponentsAsync"
                           /\ adminLog[k].event = "start"})
  /\ DrainFailed => superBlockSaves = <<>>
  /\ (DrainFailed /\ adminCompletion.finished) =>
       /\ Len(LogOf("start")) = 6
       /\ \A i \in 1..6 : LogOf("start")[i].what = DrainOrder[i]
       /\ Len(LogOf("finishDrainingWithResult")) = 1
       /\ adminCompletion.result = LoggedErrors[1].result

\* a save whose block map drain and slab depot drain fail with different
\* errors finishes with the error of the block map drain
C32_Witness ==
  /\ adminCompletion.finished
  /\ adminCompletion.type = "ADMIN_OPERATION_SAVE"
  /\ Len(LoggedErrors) = 2
  /\ LoggedErrors[1].what = "drainBlockMap"
  /\ LoggedErrors[1].result = "VDO_READ_ONLY"
  /\ LoggedErrors[2].what = "drainSlabDepot"
  /\ LoggedErrors[2].result = VDO_IO_ERROR
  /\ adminCompletion.result = "VDO_READ_ONLY"
  /\ superBlockSaves = <<>>

\* the invocation of suspendCallback that gets to writeSuperBlock
WritesSuperBlock ==
  /\ subTask.pending = "suspendCallback"
  /\ PhaseName(adminCompletion.phase) = "SUSPEND_PHASE_WRITE_SUPER_BLOCK"
  /\ adminCompletion.type = "ADMIN_OPERATION_SAVE"
  /\ adminCompletion.result = VDO_SUCCESS
  /\ adminLog' # adminLog

\* C33: writeSuperBlock saves VDO_CLEAN for a VDO that is VDO_DIRTY,
\* VDO_NEW or VDO_CLEAN, and the state as it is for a VDO that is
\* VDO_READ_ONLY_MODE, VDO_FORCE_REBUILD, VDO_RECOVERING or
\* VDO_REBUILD_FOR_UPGRADE; for VDO_REPLAYING, or a value outside the
\* enumeration, it saves nothing and finishes the sub-task with
\* UDS_BAD_STATE; no saved super block carries VDO_NEW, VDO_DIRTY or
\* VDO_REPLAYING.
C33_SavedState ==
  [][/\ WritesSuperBlock =>
          CASE kernelVDO.state \in {VDO_DIRTY, VDO_NEW, VDO_CLEAN} ->
                 superBlockSaves' = Append(superBlockSaves, VDO_CLEAN)
            [] kernelVDO.state \in {VDO_READ_ONLY_MODE, VDO_FORCE_REBUILD,
                                    VDO_RECOVERING,
                                    VDO_REBUILD_FOR_UPGRADE} ->
                 superBlockSaves' = Append(superBlockSaves, kernelVDO.state)
            [] OTHER ->
                 /\ superBlockSaves' = superBlockSaves
                 /\ adminLog'[Len(adminLog')]
                      = AdminEvent("finishCompletion", 6,
                                   ThreadConfig.admin, "writeSuperBlock",
                                   UDS_BAD_STATE)
     /\ \A i \in DOMAIN superBlockSaves' :
          superBlockSaves'[i] \notin {VDO_NEW, VDO_DIRTY, VDO_REPLAYING}
    ]_vars

\* a VDO whose upgrade rebuild is pending has been saved as it is
C33_Witness ==
  /\ adminCompletion.finished
  /\ adminCompletion.result = VDO_SUCCESS
  /\ superBlockSaves = <<VDO_REBUILD_FOR_UPGRADE>>
  /\ kernelVDO.state = VDO_REBUILD_FOR_UPGRADE

\* C34: when startDraining has accepted the operation and the VDO needs
\* no close, the callback of the START phase finishes the drain at once:
\* it is the only invocation, nothing is started and nothing is saved.
\* When startDraining has refused, the callback returns: nothing is
\* started, nothing is saved and finishDrainingWithResult is not called.
C34_StartPhaseExits ==
  /\ (DrainAccepted /\ ~kernelVDO.closeRequired) =>
       /\ Len(LogOf("suspendCallback")) = 1
       /\ Len(LogOf("finishDrainingWithResult")) = 1
       /\ adminLog[Len(adminLog)].event = "finishDrainingWithResult"
       /\ LogOf("start") = <<>>
       /\ superBlockSaves = <<>>
       /\ subTask.pending = "none"
  /\ DrainRefused =>
       /\ Len(LogOf("suspendCallback")) = 1
       /\ LogOf("finishDrainingWithResult") = <<>>
       /\ LogOf("start") = <<>>
       /\ superBlockSaves = <<>>
       /\ subTask.pending = "none"
       /\ kernelVDO.adminState = "ADMIN_STATE_SUSPENDED"

\* a save of a VDO that needs no close has finished from the START phase
C34_Witness ==
  /\ DrainAccepted
  /\ ~kernelVDO.closeRequired
  /\ adminCompletion.type = "ADMIN_OPERATION_SAVE"
  /\ adminCompletion.finished
  /\ kernelVDO.adminState = "ADMIN_STATE_SAVED"
  /\ kernelVDO.state = VDO_DIRTY

\* C35: every invocation of suspendCallback runs on the thread of the
\* phase it runs: the packer zone thread for SUSPEND_PHASE_PACKER, the
\* journal zone thread for SUSPEND_PHASE_JOURNAL, the admin thread for
\* every other phase; so the packer is drained on the packer zone thread
\* and the recovery journal on the journal zone thread.
C35_PhaseOnItsThread ==
  /\ \A e \in Range(LogOf("suspendCallback")) :
       e.thread =
         CASE PhaseName(e.phase) = "SUSPEND_PHASE_PACKER" ->
                ThreadConfig.packer
           [] PhaseName(e.phase) = "SUSPEND_PHASE_JOURNAL" ->
                ThreadConfig.journal
           [] OTHER -> ThreadConfig.admin
  /\ \A e \in Range(LogOf("start")) :
       /\ e.what = "drainPacker" => e.thread = ThreadConfig.packer
       /\ e.what = "drainRecoveryJournal" => e.thread = ThreadConfig.journal
       /\ e.what \notin {"drainPacker", "drainRecoveryJournal"} =>
            e.thread = ThreadConfig.admin
  /\ subTask.pending = "suspendCallback" =>
       subTask.callbackThreadID
         = CASE PhaseName(adminCompletion.phase) = "SUSPEND_PHASE_PACKER" ->
                  ThreadConfig.packer
             [] PhaseName(adminCompletion.phase) = "SUSPEND_PHASE_JOURNAL" ->
                  ThreadConfig.journal
             [] OTHER -> ThreadConfig.admin

\* the recovery journal is being drained on the journal zone thread after
\* the block map drain has failed
C35_Witness ==
  /\ subTask.pending = "drainRecoveryJournal"
  /\ LogOf("start")[5].thread = ThreadConfig.journal
  /\ LogOf("suspendCallback")[2].thread = ThreadConfig.packer
  /\ LoggedErrors # <<>>
  /\ LoggedErrors[1].what = "drainBlockMap"

\* C36: finishDrainingWithResult is never called twice, and an operation
\* that startDraining has accepted gets to call it.
C36_FinishesDrainingOnce ==
  /\ [](Len(LogOf("finishDrainingWithResult")) <= 1)
  /\ (DrainAccepted ~> Len(LogOf("finishDrainingWithResult")) = 1)

\* a suspend every drain of which has failed has finished draining
C36_Witness ==
  /\ adminCompletion.type = "ADMIN_OPERATION_SUSPEND"
  /\ Len(LogOf("finishDrainingWithResult")) = 1
  /\ Len(LoggedErrors) = 6
  /\ kernelVDO.adminState = "ADMIN_STATE_SUSPENDED"
  /\ adminCompletion.result = VDO_IO_ERROR

(***************************************************************************)
(* parseUtils.c: parseSize and parseUInt.  A string is a sequence of       *)
(* characters; an unsigned 64-bit value is its four 16-bit limbs, lowest   *)
(* first, and the arithmetic on it wraps as the C arithmetic does.         *)
(*                                                                         *)
(* SpecParse : one call of parseSize or of parseUInt on any string of at   *)
(*             most MaxArgLen characters of ParseChars, and on the strings *)
(*             of LongArgs.                                                *)
(***************************************************************************)
\* longest string made of ParseChars
MaxArgLen == 3

\* the characters of the strings parsed: digits, the hexadecimal prefix
\* (no unit code), a sign and unit codes of either case
ParseChars == {"0", "1", "9", "x", "-", "B", "K", "k", "G", "P"}

\* further strings: values at the edge of 64 bits, the other unit codes,
\* white space and a sign before the number, characters after the unit
LongArgs ==
  {<<"1", "6", "3", "8", "3", "P">>, <<"1", "6", "3", "8", "4", "P">>,
   <<"1", "6", "7", "7", "7", "2", "1", "5", "T">>,
   <<"1", "6", "7", "7", "7", "2", "1", "6", "t">>,
   <<"0", "x", "f", "f", "f", "f", "f", "f", "f", "f", "f", "f", "f", "f",
     "f", "f", "f", "f">>,
   <<"0", "x", "1", "0", "0", "0", "0", "0", "0", "0", "0", "0", "0", "0",
     "0", "0", "0", "0", "0">>,
   <<"0", "x", "3", "f", "f", "f", "f", "f", "f", "f", "f", "g">>,
   <<"0", "x", "4", "0", "0", "0", "0", "0", "0", "0", "0", "G">>,
   <<" ", "+", "2", "m">>, <<"7", "M">>, <<"7", "Z">>, <<"1", "K", "i", "B">>, <<"1", " ", "K">>,
   <<"4", "2", "9", "4", "9", "6", "7", "2", "9", "6">>,
   <<"6", "5", "5", "3", "6">>}

ParseArgs ==
  UNION {[1..n -> ParseChars] : n \in 0..MaxArgLen} \cup LongArgs

\* the limbs of a value below 2^31
U64(n) == <<n % 65536, n \div 65536, 0, 0>>

\* v * m + a in 64 bits, and what does not fit
MulAdd(v, m, a) ==
  LET t1 == (v[1] * m) + a
      t2 == (v[2] * m) + (t1 \div 65536)
      t3 == (v[3] * m) + (t2 \div 65536)
      t4 == (v[4] * m) + (t3 \div 65536)
  IN [value |-> <<t1 % 65536, t2 % 65536, t3 % 65536, t4 % 65536>>,
      carry |-> t4 \div 65536]

\* v << n and v >> n of an unsigned 64-bit v, for n below 64: whole
\* limbs first, then the bits within a limb
ShiftLeft(v, n) ==
  LET p == 2 ^ (n % 16)
      L(i) == IF i - (n \div 16) \in 1..4 THEN v[i - (n \div 16)] ELSE 0
      S(i) == ((L(i) * p) % 65536) + ((L(i - 1) * p) \div 65536)
  IN <<S(1), S(2), S(3), S(4)>>

ShiftRight(v, n) ==
  LET p == 2 ^ (n % 16)
      R(i) == IF i + (n \div 16) \in 1..4 THEN v[i + (n \div 16)] ELSE 0
      S(i) == (R(i) \div p) + ((R(i + 1) % p) * (65536 \div p))
  IN <<S(1), S(2), S(3), S(4)>>

\* a < b as unsigned 64-bit values
Less(a, b) ==
  \E i \in 1..4 : a[i] < b[i] /\ \A j \in (i + 1)..4 : a[j] = b[j]

toupper(c) ==
  LET lower == <<"a", "b", "c", "d", "e", "f", "g", "h", "i", "j", "k",
                 "l", "m", "n", "o", "p", "q", "r", "s", "t", "u", "v",
                 "w", "x", "y", "z">>
      upper == <<"A", "B", "C", "D", "E", "F", "G", "H", "I", "J", "K",
                 "L", "M", "N", "O", "P", "Q", "R", "S", "T", "U", "V",
                 "W", "X", "Y", "Z">>
  IN IF \E i \in DOMAIN lower : lower[i] = c
       THEN upper[CHOOSE i \in DOMAIN lower : lower[i] = c]
       ELSE c

\* the value of c as a digit of the base, or -1
strtoull_digit(c, base) ==
  LET digits == <<"0", "1", "2", "3", "4", "5", "6", "7", "8", "9", "A",
                  "B", "C", "D", "E", "F">>
  IN IF \E i \in 1..base : digits[i] = toupper(c)
       THEN (CHOOSE i \in 1..base : digits[i] = toupper(c)) - 1
       ELSE -1

\* the digits of arg from position i on, added to acc
RECURSIVE strtoull_digits(_, _, _, _)
strtoull_digits(arg, i, base, acc) ==
  IF i > Len(arg) \/ strtoull_digit(arg[i], base) < 0
    THEN [acc EXCEPT !.end = i - 1]
    ELSE LET next == MulAdd(acc.value, base, strtoull_digit(arg[i], base))
         IN strtoull_digits(arg, i + 1, base,
                            [value |-> next.value,
                             overflow |-> acc.overflow \/ next.carry # 0,
                             end |-> 0])

\* strtoull(arg, &endPtr, 0) and strtoul(arg, &endPtr, 0) of a 64-bit
\* unsigned long: white space, a sign, the prefix of the base, digits.
\* end is the number of characters before endPtr; with no digits there is
\* no conversion and endPtr is arg; a value that does not fit is
\* ULLONG_MAX with ERANGE; a minus sign negates the value in 64 bits.
strtoull(arg) ==
  LET At(i) == IF i \in DOMAIN arg THEN arg[i] ELSE "NUL"
      s == CHOOSE i \in 1..(Len(arg) + 1) :
             /\ \A j \in 1..(i - 1) : arg[j] = " "
             /\ At(i) # " "
      p == IF At(s) \in {"+", "-"} THEN s + 1 ELSE s
      hex == /\ At(p) = "0"
             /\ toupper(At(p + 1)) = "X"
             /\ strtoull_digit(At(p + 2), 16) >= 0
      base == IF hex THEN 16 ELSE IF At(p) = "0" THEN 8 ELSE 10
      q == IF hex THEN p + 2 ELSE p
      n == strtoull_digits(arg, q, base,
                           [value |-> U64(0), overflow |-> FALSE, end |-> 0])
  IN IF n.end < q
       THEN [value |-> U64(0), end |-> 0, errno |-> "no error"]
     ELSE IF n.overflow
       THEN [value |-> <<65535, 65535, 65535, 65535>>, end |-> n.end,
             errno |-> "ERANGE"]
     ELSE [value |-> IF At(s) = "-"
                       THEN MulAdd(<<65535 - n.value[1], 65535 - n.value[2],
                                     65535 - n.value[3], 65535 - n.value[4]>>,
                                   1, 1).value
                       ELSE n.value,
           end |-> n.end, errno |-> "no error"]

getBinaryExponent_decimal(unitCode) ==
  LET UNIT_CODES == <<"B", "K", "M", "G", "T", "P">>
  IN IF \E i \in DOMAIN UNIT_CODES : UNIT_CODES[i] = toupper(unitCode)
       THEN 3 * ((CHOOSE i \in DOMAIN UNIT_CODES :
                    UNIT_CODES[i] = toupper(unitCode)) - 1)
       ELSE -1

getBinaryExponent(unitCode) ==
  LET UNIT_CODES == <<"B", "K", "M", "G", "T", "P">>
  IN IF \E i \in DOMAIN UNIT_CODES : UNIT_CODES[i] = toupper(unitCode)
       THEN 10 * ((CHOOSE i \in DOMAIN UNIT_CODES :
                     UNIT_CODES[i] = toupper(unitCode)) - 1)
       ELSE -1

\* what a call leaves: its result and *sizePtr or *numPtr
Parsed(res, out) == [result |-> res, out |-> out]

parseUInt(arg, lowest, highest, num) ==
  LET n == strtoull(arg)
  IN IF \/ n.errno \in {"ERANGE", "EINVAL"}
        \/ n.end = 0
        \/ n.end # Len(arg)
        \/ Less(n.value, U64(lowest))
        \/ Less(U64(highest), n.value)
       THEN Parsed(VDO_OUT_OF_RANGE, num)
       ELSE Parsed(VDO_SUCCESS, [written |-> TRUE, value |-> n.value])

parseSize(arg, lvmMode, sizePtr) ==
  LET n == strtoull(arg)
      endPtr == SubSeq(arg, n.end + 1, Len(arg))
      exponent == IF endPtr = <<>>
                    THEN IF lvmMode THEN 20 ELSE 0
                    ELSE getBinaryExponent(endPtr[1])
      actualSize == ShiftLeft(n.value, exponent)
  IN IF n.errno \in {"ERANGE", "EINVAL"} \/ n.end = 0
       THEN Parsed(VDO_OUT_OF_RANGE, sizePtr)
     ELSE IF exponent < 0
       THEN Parsed(VDO_OUT_OF_RANGE, sizePtr)
     ELSE IF Len(endPtr) > 1
       THEN Parsed(VDO_OUT_OF_RANGE, sizePtr)
     ELSE IF n.value # ShiftRight(actualSize, exponent)
       THEN Parsed(VDO_OUT_OF_RANGE, sizePtr)
     ELSE Parsed(VDO_SUCCESS, [written |-> TRUE, value |-> actualSize])

\* the callers' ranges of parseUInt
UIntRanges == {<<0, 0>>, <<1, 9>>, <<2, 65536>>}

CallParseSize ==
  /\ parse.fn = "parseSize"
  /\ ~parse.returned
  /\ LET r == parseSize(parse.arg, parse.lvmMode, parse.out)
     IN parse' = [parse EXCEPT !.returned = TRUE, !.result = r.result,
                               !.out = r.out]
  /\ UNCHANGED <<formatVars, adminCompletion, subTask, kernelVDO,
                 superBlockSaves, adminLog, logger, descriptors, logThreads,
                 alloc>>

CallParseUInt ==
  /\ parse.fn = "parseUInt"
  /\ ~parse.returned
  /\ LET r == parseUInt(parse.arg, parse.lowest, parse.highest, parse.out)
     IN parse' = [parse EXCEPT !.returned = TRUE, !.result = r.result,
                               !.out = r.out]
  /\ UNCHANGED <<formatVars, adminCompletion, subTask, kernelVDO,
                 superBlockSaves, adminLog, logger, descriptors, logThreads,
                 alloc>>

InitParse ==
  /\ FormatIdle
  /\ SuspendIdle
  /\ LogIdle
  /\ alloc = [called |-> FALSE]
  /\ \E arg \in ParseArgs :
       \/ \E lvmMode \in BOOLEAN :
            parse = [fn |-> "parseSize", arg |-> arg, lvmMode |-> lvmMode,
                     lowest |-> 0, highest |-> 0, returned |-> FALSE,
                     result |-> VDO_SUCCESS,
                     out |-> [written |-> FALSE, value |-> U64(0)]]
       \/ \E range \in UIntRanges :
            parse = [fn |-> "parseUInt", arg |-> arg, lvmMode |-> FALSE,
                     lowest |-> range[1], highest |-> range[2],
                     returned |-> FALSE, result |-> VDO_SUCCESS,
                     out |-> [written |-> FALSE, value |-> U64(0)]]

NextParse ==
  \/ CallParseSize
  \/ CallParseUInt

SpecParse == InitParse /\ [][NextParse]_vars

(***************************************************************************)
(* Claims about parseSize and parseUInt.                                   *)
(***************************************************************************)
\* what follows the number in the string parsed
AfterNumber == SubSeq(parse.arg, strtoull(parse.arg).end + 1, Len(parse.arg))

\* the string starts with a number: digits, after white space and a sign
HasNumber == strtoull(parse.arg).end > 0

\* the binary exponent of what follows the number, -1 for an unknown unit
UnitExponent ==
  IF AfterNumber = <<>>
    THEN IF parse.lvmMode THEN 20 ELSE 0
    ELSE CASE AfterNumber[1] \in {"B", "b"} -> 0
           [] AfterNumber[1] \in {"K", "k"} -> 10
           [] AfterNumber[1] \in {"M", "m"} -> 20
           [] AfterNumber[1] \in {"G", "g"} -> 30
           [] AfterNumber[1] \in {"T", "t"} -> 40
           [] AfterNumber[1] \in {"P", "p"} -> 50
           [] OTHER -> -1

\* 2^k as a 64-bit value, for k in 0..63
PowerOfTwo(k) ==
  <<IF k \div 16 = 0 THEN 2 ^ (k % 16) ELSE 0,
    IF k \div 16 = 1 THEN 2 ^ (k % 16) ELSE 0,
    IF k \div 16 = 2 THEN 2 ^ (k % 16) ELSE 0,
    IF k \div 16 = 3 THEN 2 ^ (k % 16) ELSE 0>>

\* the number times 2^e is below 2^64
FitsShifted(e) ==
  /\ strtoull(parse.arg).errno # "ERANGE"
  /\ e = 0 \/ Less(strtoull(parse.arg).value, PowerOfTwo(64 - e))

\* v times 1024^k in 64 bits
RECURSIVE TimesKilo(_, _)
TimesKilo(v, k) ==
  IF k = 0 THEN v ELSE TimesKilo(MulAdd(v, 1024, 0).value, k - 1)

\* what parseSize and parseUInt do with a string that has the errors
\* given: with none, success and the value written, with one,
\* VDO_OUT_OF_RANGE and nothing written
ParseSizeReturns(errors) ==
  (parse.fn = "parseSize" /\ parse.returned) =>
    IF errors
      THEN /\ parse.result = VDO_OUT_OF_RANGE
           /\ ~parse.out.written
      ELSE /\ parse.result = VDO_SUCCESS
           /\ parse.out.written
           /\ parse.out.value
                = TimesKilo(strtoull(parse.arg).value, UnitExponent \div 10)

ParseUIntReturns ==
  (parse.fn = "parseUInt" /\ parse.returned) =>
    IF \/ ~HasNumber
       \/ AfterNumber # <<>>
       \/ strtoull(parse.arg).errno = "ERANGE"
       \/ Less(strtoull(parse.arg).value, U64(parse.lowest))
       \/ Less(U64(parse.highest), strtoull(parse.arg).value)
      THEN /\ parse.result = VDO_OUT_OF_RANGE
           /\ ~parse.out.written
      ELSE /\ parse.result = VDO_SUCCESS
           /\ parse.out.written
           /\ parse.out.value = strtoull(parse.arg).value

\* C37 as stated: parseSize returns VDO_OUT_OF_RANGE exactly when the
\* unit code is unknown, characters follow the unit, or the shifted value
\* does not fit in 64 bits, and otherwise writes the number shifted by the
\* exponent of the unit.
C37_Original ==
  /\ ParseSizeReturns(\/ UnitExponent < 0
                      \/ Len(AfterNumber) > 1
                      \/ ~FitsShifted(UnitExponent))
  /\ ParseUIntReturns

\* C37: parseSize returns VDO_OUT_OF_RANGE exactly when the string does
\* not start with a number, the unit code is unknown, characters follow
\* the unit, or the number or the shifted value does not fit in 64 bits;
\* otherwise it returns VDO_SUCCESS and writes the number shifted left by
\* the exponent of the unit (B 0, K 10, M 20, G 30, T 40, P 50, of either
\* case; with no unit 20 in LVM mode and 0 otherwise).  parseUInt returns
\* VDO_OUT_OF_RANGE when the string is not a number alone or the number
\* is outside [lowest, highest], and otherwise writes the number.  A call
\* that returns an error writes nothing.
C37_ParseSizeErrors ==
  /\ ParseSizeReturns(\/ ~HasNumber
                      \/ UnitExponent < 0
                      \/ Len(AfterNumber) > 1
                      \/ ~FitsShifted(UnitExponent))
  /\ ParseUIntReturns

\* 16384P is 2^64: it does not fit, while 16383P does
C37_Witness ==
  /\ parse.fn = "parseSize"
  /\ parse.returned
  /\ parse.arg = <<"1", "6", "3", "8", "4", "P">>
  /\ parse.result = VDO_OUT_OF_RANGE
  /\ ~parse.out.written

(***************************************************************************)
(* minisyslog.c: the logger of the user-space tools, called from several   *)
(* threads.  Every step below is one stretch of the code between two       *)
(* accesses of the descriptor table; the steps of different threads        *)
(* interleave freely.                                                      *)
(*                                                                         *)
(* SpecLog : NumThreads threads, each calling mini_openlog, mini_closelog, *)
(*           mini_syslog, mini_vsyslog and mini_syslog_pack again and      *)
(*           again; socket(), connect(), send() and the duplication of the *)
(*           ident may fail at any call.                                   *)
(*                                                                         *)
(* logger.mutex is 0 while the mutex is free and the holder's number while *)
(* it is held; uds_lock_mutex and uds_unlock_mutex are the pthread mutex   *)
(* operations.  A descriptor is "free", "unconnected" (socket() returned   *)
(* it) or "connected".                                                     *)
(***************************************************************************)
\* where open_socket_locked returns to: mini_openlog goes on to unlock
\* (minisyslog.c:96-97), log_it to the send (minisyslog.c:198-199)
open_socket_locked_return(fn) ==
  IF fn = "mini_openlog" THEN "uds_unlock_mutex" ELSE "log_it_send"

\* a thread enters one of the five functions with its arguments;
\* mini_syslog only forwards to mini_vsyslog (minisyslog.c:101-107)
LogCall(t) ==
  /\ logThreads[t].pc = "idle"
  /\ \/ \E option \in {{}, {"LOG_NDELAY"}, {"LOG_NDELAY", "LOG_CONS"}},
           facility \in {"LOG_USER", "LOG_DAEMON"} :
          logThreads' = [logThreads EXCEPT ![t] =
                           [@ EXCEPT !.pc = "uds_lock_mutex",
                                     !.fn = "mini_openlog",
                                     !.option = option,
                                     !.facility = facility]]
     \/ logThreads' = [logThreads EXCEPT ![t] =
                         [@ EXCEPT !.pc = "uds_lock_mutex",
                                   !.fn = "mini_closelog"]]
     \/ \E fn \in {"mini_syslog", "mini_vsyslog", "mini_syslog_pack"},
           facility \in {"0", "LOG_DAEMON"} :
          logThreads' = [logThreads EXCEPT ![t] =
                           [@ EXCEPT !.pc = "uds_lock_mutex", !.fn = fn,
                                     !.facility = facility]]
  /\ UNCHANGED <<logger, descriptors>>
  /\ UNCHANGED <<formatVars, adminCompletion, subTask, kernelVDO,
                 superBlockSaves, adminLog, parse, alloc>>

\* minisyslog.c:85, 222, 231, 238: the thread waits until the mutex is free
\* and takes it
uds_lock_mutex(t) ==
  /\ logThreads[t].pc = "uds_lock_mutex"
  /\ logger.mutex = 0
  /\ logger' = [logger EXCEPT !.mutex = t]
  /\ logThreads' = [logThreads EXCEPT ![t] =
       CASE @.fn = "mini_openlog" ->
              [@ EXCEPT !.pc = "close_locked", !.ret = "mini_openlog"]
         [] @.fn = "mini_closelog" ->
              [@ EXCEPT !.pc = "close_locked", !.ret = "mini_closelog"]
         [] OTHER -> [@ EXCEPT !.pc = "log_it"]]
  /\ UNCHANGED descriptors
  /\ UNCHANGED <<formatVars, adminCompletion, subTask, kernelVDO,
                 superBlockSaves, adminLog, parse, alloc>>

\* a variant of close_locked that closes the descriptor and keeps its number
\* in log_socket
close_locked_keeps(t) ==
  /\ logThreads[t].pc \in {"close_locked", "close_locked_reset"}
  /\ IF logThreads[t].pc = "close_locked" /\ logger.log_socket # -1
       THEN /\ descriptors' = [descriptors EXCEPT ![logger.log_socket] = "free"]
            /\ logThreads' = [logThreads EXCEPT ![t].pc = "close_locked_reset"]
       ELSE /\ descriptors' = descriptors
            /\ logThreads' = [logThreads EXCEPT ![t].pc = logThreads[t].ret]
  /\ UNCHANGED logger
  /\ UNCHANGED <<formatVars, adminCompletion, subTask, kernelVDO,
                 superBlockSaves, adminLog, parse, alloc>>

\* minisyslog.c:47-53: close(log_socket) if there is one, then
\* log_socket = -1
close_locked(t) ==
  /\ \/ /\ logThreads[t].pc = "close_locked"
        /\ IF logger.log_socket # -1
             THEN /\ descriptors' =
                       [descriptors EXCEPT ![logger.log_socket] = "free"]
                  /\ logThreads' =
                       [logThreads EXCEPT ![t].pc = "close_locked_reset"]
             ELSE /\ descriptors' = descriptors
                  /\ logThreads' = [logThreads EXCEPT ![t].pc = logThreads[t].ret]
        /\ UNCHANGED logger
     \/ /\ logThreads[t].pc = "close_locked_reset"
        /\ logger' = [logger EXCEPT !.log_socket = -1]
        /\ logThreads' = [logThreads EXCEPT ![t].pc = logThreads[t].ret]
        /\ UNCHANGED descriptors
  /\ UNCHANGED <<formatVars, adminCompletion, subTask, kernelVDO,
                 superBlockSaves, adminLog, parse, alloc>>

\* minisyslog.c:87-97: the ident is replaced by a copy of the argument, or
\* by NULL if the copy cannot be made; the option and the facility are
\* stored, and LOG_NDELAY opens the socket at once
mini_openlog(t) ==
  /\ logThreads[t].pc = "mini_openlog"
  /\ \E ident \in {"ident", "NULL"} :
       logger' = [logger EXCEPT !.log_ident = ident,
                                !.log_option = logThreads[t].option,
                                !.default_facility = logThreads[t].facility]
  /\ logThreads' = [logThreads EXCEPT ![t].pc =
                      IF "LOG_NDELAY" \in logThreads[t].option
                        THEN "open_socket_locked"
                        ELSE "uds_unlock_mutex"]
  /\ UNCHANGED descriptors
  /\ UNCHANGED <<formatVars, adminCompletion, subTask, kernelVDO,
                 superBlockSaves, adminLog, parse, alloc>>

\* minisyslog.c:56-74: nothing to do if there is a socket; otherwise socket()
\* returns the lowest free descriptor, or -1
open_socket_locked(t) ==
  /\ logThreads[t].pc = "open_socket_locked"
  /\ LET free == {fd \in DOMAIN descriptors : descriptors[fd] = "free"}
         back == open_socket_locked_return(logThreads[t].fn)
     IN IF logger.log_socket # -1
          THEN /\ logThreads' = [logThreads EXCEPT ![t].pc = back]
               /\ UNCHANGED <<logger, descriptors>>
          ELSE \/ /\ logger' = [logger EXCEPT !.log_socket = -1]
                  /\ logThreads' = [logThreads EXCEPT ![t].pc = back]
                  /\ UNCHANGED descriptors
               \/ /\ free # {}
                  /\ LET fd == CHOOSE f \in free : \A g \in free : f <= g
                     IN /\ descriptors' =
                             [descriptors EXCEPT ![fd] = "unconnected"]
                        /\ logger' = [logger EXCEPT !.log_socket = fd]
                  /\ logThreads' = [logThreads EXCEPT ![t].pc =
                                      "open_socket_locked_connect"]
  /\ UNCHANGED <<formatVars, adminCompletion, subTask, kernelVDO,
                 superBlockSaves, adminLog, parse, alloc>>

\* minisyslog.c:76-80: connect() to the log device; a failure closes the
\* socket again
open_socket_locked_connect(t) ==
  /\ logThreads[t].pc = "open_socket_locked_connect"
  /\ LET back == open_socket_locked_return(logThreads[t].fn)
     IN \/ /\ descriptors' =
                [descriptors EXCEPT ![logger.log_socket] = "connected"]
           /\ logThreads' = [logThreads EXCEPT ![t].pc = back]
        \/ /\ logThreads' = [logThreads EXCEPT ![t] =
                [@ EXCEPT !.pc = "close_locked", !.ret = back]]
           /\ UNCHANGED descriptors
  /\ UNCHANGED logger
  /\ UNCHANGED <<formatVars, adminCompletion, subTask, kernelVDO,
                 superBlockSaves, adminLog, parse, alloc>>

\* minisyslog.c:123-198: the message is formatted with the default facility
\* if the priority names none, the ident and the options; a message that
\* leaves no room for its trailer is dropped (minisyslog.c:169-171)
log_it(t) ==
  /\ logThreads[t].pc = "log_it"
  /\ \E dropped \in BOOLEAN :
       logThreads' = [logThreads EXCEPT ![t] =
         [@ EXCEPT !.pc = IF dropped THEN "uds_unlock_mutex"
                                     ELSE "open_socket_locked",
                   !.facility = IF @ = "0" THEN logger.default_facility
                                           ELSE @,
                   !.option = logger.log_option]]
  /\ UNCHANGED <<logger, descriptors>>
  /\ UNCHANGED <<formatVars, adminCompletion, subTask, kernelVDO,
                 superBlockSaves, adminLog, parse, alloc>>

\* minisyslog.c:199-212: the message is sent on log_socket if there is one;
\* the socket is kept whether or not the send fails.  sent is the state of
\* the descriptor the send was made on
log_it_send(t) ==
  /\ logThreads[t].pc = "log_it_send"
  /\ logThreads' = [logThreads EXCEPT ![t] =
       [@ EXCEPT !.pc = "uds_unlock_mutex",
                 !.sent = IF logger.log_socket = -1
                            THEN "none"
                            ELSE descriptors[logger.log_socket]]]
  /\ UNCHANGED <<logger, descriptors>>
  /\ UNCHANGED <<formatVars, adminCompletion, subTask, kernelVDO,
                 superBlockSaves, adminLog, parse, alloc>>

\* minisyslog.c:240-243: the ident is freed and the globals get their
\* initial values back
mini_closelog(t) ==
  /\ logThreads[t].pc = "mini_closelog"
  /\ logger' = [logger EXCEPT !.log_ident = "NULL", !.log_option = {},
                              !.default_facility = "LOG_USER"]
  /\ logThreads' = [logThreads EXCEPT ![t].pc = "uds_unlock_mutex"]
  /\ UNCHANGED descriptors
  /\ UNCHANGED <<formatVars, adminCompletion, subTask, kernelVDO,
                 superBlockSaves, adminLog, parse, alloc>>

\* minisyslog.c:97, 224, 233, 244: the mutex is released and the function
\* returns
uds_unlock_mutex(t) ==
  /\ logThreads[t].pc = "uds_unlock_mutex"
  /\ logger' = [logger EXCEPT !.mutex = 0]
  /\ logThreads' = [logThreads EXCEPT ![t] =
                      [pc |-> "idle", fn |-> "none", option |-> {},
                       facility |-> "0", ret |-> "none", sent |-> "none"]]
  /\ UNCHANGED descriptors
  /\ UNCHANGED <<formatVars, adminCompletion, subTask, kernelVDO,
                 superBlockSaves, adminLog, parse, alloc>>

InitLog ==
  /\ FormatIdle
  /\ SuspendIdle
  /\ ParseIdle
  /\ LogIdle
  /\ alloc = [called |-> FALSE]

NextLog ==
  \E t \in 1..NumThreads :
    \/ LogCall(t)
    \/ uds_lock_mutex(t)
    \/ close_locked(t)
    \/ mini_openlog(t)
    \/ open_socket_locked(t)
    \/ open_socket_locked_connect(t)
    \/ log_it(t)
    \/ log_it_send(t)
    \/ mini_closelog(t)
    \/ uds_unlock_mutex(t)

SpecLog == InitLog /\ [][NextLog]_vars

(***************************************************************************)
(* Claims about the logger.                                                *)
(***************************************************************************)
\* the steps in which a thread is inside the mutex, by the code's layout
InsideMutex ==
  {"close_locked", "close_locked_reset", "mini_openlog", "open_socket_locked",
   "open_socket_locked_connect", "log_it", "log_it_send", "mini_closelog",
   "uds_unlock_mutex"}

\* log_socket is -1 or names a connected descriptor that is still open
SocketUsable ==
  \/ logger.log_socket = -1
  \/ descriptors[logger.log_socket] = "connected"

SIZE_MAX == (2 ^ SizeBits) - 1

\* a variant of the computation without the overflow check
doAllocation_totalSize_wrapped(count, size, extra) ==
  ((count * size) + extra) % (SIZE_MAX + 1)

\* memoryAlloc.h:90-101: the size doAllocation passes on
doAllocation_totalSize(count, size, extra) ==
  LET totalSize == ((count * size) + extra) % (SIZE_MAX + 1)
  IN IF (size > 0) /\ (count > ((SIZE_MAX - extra) \div size))
       THEN SIZE_MAX
       ELSE totalSize

\* malloc and posix_memalign: size bytes of indeterminate content if the
\* heap has them, nothing otherwise
malloc(size, available, garbage) ==
  IF size <= available
    THEN [p |-> "p", errno |-> "none", bytes |-> [i \in 1..size |-> garbage]]
    ELSE [p |-> "NULL", errno |-> "ENOMEM", bytes |-> <<>>]

\* part_003:29-68: what the allocation returns, what it stores through ptr
\* and the memory it hands out
uds_allocate_memory(size, align, ptr, available, garbage) ==
  LET m == malloc(size, available, garbage)
      unwritten == [written |-> FALSE, pointer |-> "NULL", bytes |-> <<>>]
      \* DEFAULT_MALLOC_ALIGNMENT is 2 * sizeof(size_t)
      via == IF align > 16 THEN "posix_memalign" ELSE "malloc"
  IN IF ptr = "NULL"
       THEN [result |-> "UDS_INVALID_ARGUMENT", via |-> "none",
             out |-> unwritten]
       ELSE IF size = 0
         THEN [result |-> "UDS_SUCCESS", via |-> "none",
               out |-> [written |-> TRUE, pointer |-> "NULL",
                        bytes |-> <<>>]]
         ELSE IF m.errno # "none"
           THEN [result |-> "-" \o m.errno, via |-> via, out |-> unwritten]
           ELSE [result |-> "UDS_SUCCESS", via |-> via,
                 out |-> [written |-> TRUE, pointer |-> m.p,
                          bytes |-> [i \in 1..size |-> 0]]]

\* memoryAlloc.h:83-104: the call
doAllocation ==
  /\ ~alloc.called
  /\ LET totalSize == doAllocation_totalSize(alloc.count, alloc.size,
                                             alloc.extra)
         r == uds_allocate_memory(totalSize, alloc.align, alloc.ptr,
                                  alloc.available, alloc.garbage)
     IN alloc' = [alloc EXCEPT !.called = TRUE, !.requested = totalSize,
                               !.result = r.result, !.via = r.via,
                               !.out = r.out]
  /\ UNCHANGED <<formatVars, adminCompletion, subTask, kernelVDO,
                 superBlockSaves, adminLog, parse, logger, descriptors,
                 logThreads>>

InitAlloc ==
  /\ FormatIdle
  /\ SuspendIdle
  /\ ParseIdle
  /\ LogIdle
  /\ \E count \in 0..SIZE_MAX, size \in 0..SIZE_MAX, extra \in 0..SIZE_MAX,
        align \in {8, 4096}, ptr \in {"NULL", "ptr"},
        available \in {0, SIZE_MAX \div 2, SIZE_MAX - 1},
        garbage \in {0, 255} :
       alloc = [called |-> FALSE, count |-> count, size |-> size,
                extra |-> extra, align |-> align, ptr |-> ptr,
                available |-> available, garbage |-> garbage,
                requested |-> 0, result |-> "UDS_SUCCESS", via |-> "none",
                out |-> [written |-> FALSE, pointer |-> "NULL",
                         bytes |-> <<>>]]

NextAlloc ==
  \/ doAllocation

SpecAlloc == InitAlloc /\ [][NextAlloc]_vars

(***************************************************************************)
(* Claims about doAllocation.                                              *)
(***************************************************************************)
\* the bytes the caller needs, as a number that does not wrap
Needed == (alloc.count * alloc.size) + alloc.extra

\* C39: once doAllocation has been called, the size it requested is
\* count * size + extra if that fits in a size_t and SIZE_MAX if it does not
\* (the code's test, size > 0 and count > (SIZE_MAX - extra) / size, is true
\* exactly when it does not fit); a request that does not fit fails and
\* stores nothing; a call that succeeds for a non-zero size hands out exactly
\* the bytes needed, all zero; and a call for size 0 that is given a place
\* to store the pointer succeeds and stores NULL.
C39_NoWrappedRequest ==
  alloc.called =>
    /\ alloc.requested = IF Needed > SIZE_MAX THEN SIZE_MAX ELSE Needed
    /\ (Needed > SIZE_MAX) <=>
         (alloc.size > 0
            /\ alloc.count > ((SIZE_MAX - alloc.extra) \div alloc.size))
    /\ Needed > SIZE_MAX =>
         alloc.result # "UDS_SUCCESS" /\ ~alloc.out.written
    /\ (alloc.result = "UDS_SUCCESS" /\ alloc.requested > 0) =>
         /\ alloc.out.written
         /\ alloc.out.pointer # "NULL"
         /\ alloc.out.bytes = [i \in 1..Needed |-> 0]
    /\ (alloc.requested = 0 /\ alloc.ptr # "NULL") =>
         /\ alloc.result = "UDS_SUCCESS"
         /\ alloc.out = [written |-> TRUE, pointer |-> "NULL",
                         bytes |-> <<>>]

\* a product that wraps round to a size the heap could have given: the call
\* has asked for SIZE_MAX bytes and failed
C39_Witness ==
  /\ alloc.called
  /\ Needed > SIZE_MAX
  /\ Needed % (SIZE_MAX + 1) > 0
  /\ Needed % (SIZE_MAX + 1) <= alloc.available
  /\ alloc.ptr # "NULL"
  /\ alloc.requested = SIZE_MAX
  /\ alloc.result = "-ENOMEM"

====
